---- MODULE Spec2Model ----
(***************************************************************************)
(* A model of the redscript compiler frontend: the source map              *)
(* (syntax/ast/src/files.rs), the local tracker, the type environment and  *)
(* the scopes of Env (compiler/frontend/src/lower/env.rs), the lowering    *)
(* errors (lower/error.rs) and the expression parser                       *)
(* (syntax/parser/src/parser.rs, parser/expr.rs).                          *)
(*                                                                         *)
(* Every public operation is synchronous and runs to completion, so each   *)
(* action is one whole call.  Each component has its own specification     *)
(* (SpecFiles, SpecLocals, SpecCapture, SpecResolve, ...); the variables   *)
(* of the other components are held at their idle values.                  *)
(***************************************************************************)
EXTENDS Integers, Sequences, FiniteSets, TLC

VARIABLES
    build,      \* "debug" (overflow checks on) or "release" (wrapping)
    panicked,   \* a call has panicked and is unwinding
    \* ---- SourceMap (files.rs)
    front,      \* StableDeque.front : sequence of File
    back,       \* StableDeque.back  : sequence of File
    pushes,     \* history: the completed pushes, with the FileId each returned
    lastGet,    \* history: the last get / len call, its answer, and the
                \* number of pushes completed when it was made
    lookup,     \* the last File::lookup call: its source, offset and answer
    \* ---- Locals (env.rs)
    counter,    \* the shared Cell<u16>
    tables,     \* the Locals tables that share the counter
    c0,         \* history: the counter's value before the first add
    lastAdd,    \* history: the last add_var / add_param / new call
    \* ---- Capture (env.rs)
    cap0,       \* the capture pop_scope is first applied to
    capCur,     \* the Option<Capture> after capK applications
    capK,       \* number of pop_scope applications so far
    capSelf,    \* history: the receiver of the last pop_scope, read after the call
    \* ---- TypeEnv::resolve (env.rs)
    params,     \* the type parameter behind each LazyVar cell
    cells,      \* the state of each Lazy cell
    nextRc,     \* the next Rc allocation
    last,       \* history: the last resolve call and its result
    hist,       \* history: per cell, the first variable a force produced, the
                \* environment of that force, and whether a reentrant force of
                \* the cell was ever reported
    \* ---- climb_prec (parser/expr.rs)
    climb,      \* the last climb_prec call: its operator chain and result
    \* ---- parse_expr (parser.rs, parser/expr.rs)
    parse,      \* the last parse_expr call: its token stream and result
    \* ---- Module::find_at (ast.rs)
    findAt,      \* the last find_at call: its module, offset and result
    \* ---- BinOp and UnOp names (ast.rs)
    opName,      \* the last name / from_name calls
    \* ---- Error (lower/error.rs)
    errCall,    \* the last is_fatal / code / span call, and the code call
                \* before it
    \* ---- Env::query_free_functions (env.rs)
    funcs,      \* Env.funcs: the scopes of free functions, outermost first
    query,      \* the last query_free_functions call, and the one before it
    \* ---- scopes of Env and TypeEnv (env.rs)
    subject,    \* whose scoped map this is: a TypeEnv, or the locals of an Env
    layers,     \* the scoped map: its layers, outermost first; the environment
                \* of depth d sees layers 1 .. d, the one on top is the live child
    born,       \* history: per layer, what its parent answered to each lookup
                \* when the layer was introduced
    put,        \* history: per layer, the bindings inserted since then
    scopeCall   \* the last call on the environment on top

vars == <<build, panicked, front, back, pushes, lastGet, lookup, counter, tables, c0,
          lastAdd, cap0, capCur, capK, capSelf, params, cells, nextRc, last,
          hist, climb, parse, findAt, opName, errCall, funcs, query, subject, layers,
          born, put, scopeCall>>

filesVars == <<front, back, pushes, lastGet, lookup>>
localsVars == <<counter, tables, c0, lastAdd>>
captureVars == <<cap0, capCur, capK, capSelf>>
resolveVars == <<params, cells, nextRc, last, hist>>
syntaxVars == <<climb, parse, findAt, opName>>
lowerVars == <<errCall, funcs, query, subject, layers, born, put, scopeCall>>

Builds == {"debug", "release"}

None == [some |-> FALSE]
Some(v) == [some |-> TRUE, v |-> v]

Max(a, b) == IF a >= b THEN a ELSE b

\* ------------------------------------------------------------------------
\* Bounds of the model
\* ------------------------------------------------------------------------
MaxPushes == 3      \* push_front / push_back calls per behaviour
MaxAdds == 3        \* add_var / add_param calls per behaviour
MaxTables == 2      \* Locals tables per behaviour
MaxCapDepth == 6    \* largest Capture.depth drawn
MaxPops == 8        \* pop_scope applications per behaviour
MaxForceDepth == 3  \* nested thunk runs followed before a resolve is given up
                    \* as recursing without bound

\* ------------------------------------------------------------------------
\* Integer widths
\* ------------------------------------------------------------------------
I32_MAX == 2147483647
I32_MIN == -2147483647 - 1
U16_MAX == 65535

\* ========================================================================
\* SourceMap, File, StableDeque                         (syntax/ast/files.rs)
\* ========================================================================
Paths == {"a.reds", "b.reds"}
Sources == {<<>>, <<"x", "\n", "y">>}

\* File::new: the line table holds, for every '\n', the offset after it.
RECURSIVE LineStarts(_, _)
LineStarts(source, i) ==
    IF i > Len(source) THEN <<>>
    ELSE IF source[i] = "\n"
         THEN <<i>> \o LineStarts(source, i + 1)   \* 0-based offset (i-1) + 1
         ELSE LineStarts(source, i + 1)

FileNew(path, source) ==
    [path |-> path, source |-> source, lines |-> LineStarts(source, 1)]

\* FrozenVec::get on a 0-based index.
VecGet(vec, i) == IF i >= 0 /\ i < Len(vec) THEN Some(vec[i + 1]) ELSE None

\* i32::try_from(len).expect("deque size overflows i32")
I32TryFrom(n) == IF n <= I32_MAX THEN Some(n) ELSE None

FrontIdMutant(len) == -(len - 1)
\* StableDeque::push_front's result, from the new length of `front`.
FrontId(len) == -len

BackIdMutant(len) == len
\* StableDeque::push_back's result, from the new length of `back`.
BackId(len) == len - 1

\* `(-index - 1) as usize` for index < 0.  Negating i32::MIN overflows: with
\* overflow checks the call panics; without them -MIN wraps to MIN and
\* MIN - 1 wraps to i32::MAX.
FrontIndex(index, b) ==
    IF index = I32_MIN
    THEN IF b = "debug" THEN [panic |-> TRUE, i |-> 0]
         ELSE [panic |-> FALSE, i |-> I32_MAX]
    ELSE [panic |-> FALSE, i |-> -index - 1]

\* StableDeque::get / SourceMap::get.
DequeGet(fr, bk, index, b) ==
    IF index < 0
    THEN LET fi == FrontIndex(index, b) IN
         IF fi.panic THEN [panic |-> TRUE, file |-> None]
         ELSE [panic |-> FALSE, file |-> VecGet(fr, fi.i)]
    ELSE [panic |-> FALSE, file |-> VecGet(bk, index)]

\* StableDeque::len / SourceMap::len.
DequeLen(fr, bk) == Len(fr) + Len(bk)

NoGet == [op |-> "none", id |-> 0, panic |-> FALSE, file |-> None, n |-> 0,
          at |-> 0]

\* SourceMap::push_front: the file is pushed, then the id is computed.
PushFront(path, source) ==
    /\ ~panicked
    /\ Len(pushes) < MaxPushes
    /\ front' = Append(front, FileNew(path, source))
    /\ LET n == I32TryFrom(Len(front')) IN
       IF n.some
       THEN /\ pushes' = Append(pushes, [end |-> "front", id |-> FrontId(n.v),
                                         path |-> path, source |-> source])
            /\ UNCHANGED panicked
       ELSE /\ panicked' = TRUE
            /\ UNCHANGED pushes
    /\ UNCHANGED <<syntaxVars, lowerVars, build, back, lastGet, lookup, localsVars,
                   captureVars, resolveVars>>

\* SourceMap::push_back.
PushBack(path, source) ==
    /\ ~panicked
    /\ Len(pushes) < MaxPushes
    /\ back' = Append(back, FileNew(path, source))
    /\ LET n == I32TryFrom(Len(back')) IN
       IF n.some
       THEN /\ pushes' = Append(pushes, [end |-> "back", id |-> BackId(n.v),
                                         path |-> path, source |-> source])
            /\ UNCHANGED panicked
       ELSE /\ panicked' = TRUE
            /\ UNCHANGED pushes
    /\ UNCHANGED <<syntaxVars, lowerVars, build, front, lastGet, lookup, localsVars,
                   captureVars, resolveVars>>

\* The FileIds a caller asks for: the small ones around zero and the two
\* ends of the i32 range.
GetIds == (-2 .. 1) \cup {I32_MIN, I32_MAX}

\* SourceMap::get(id).
Get(id) ==
    /\ ~panicked
    /\ LET r == DequeGet(front, back, id, build) IN
       /\ lastGet' = [op |-> "get", id |-> id, panic |-> r.panic,
                      file |-> r.file, n |-> 0, at |-> Len(pushes)]
       /\ panicked' = r.panic
    /\ UNCHANGED <<syntaxVars, lowerVars, build, front, back, pushes, lookup, localsVars, captureVars,
                   resolveVars>>

\* SourceMap::len().
LenCall ==
    /\ ~panicked
    /\ lastGet' = [op |-> "len", id |-> 0, panic |-> FALSE, file |-> None,
                   n |-> DequeLen(front, back), at |-> Len(pushes)]
    /\ UNCHANGED <<syntaxVars, lowerVars, build, panicked, front, back, pushes, lookup, localsVars,
                   captureVars, resolveVars>>

\* ========================================================================
\* Locals                                      (compiler/frontend/lower/env.rs)
\* ========================================================================
PolyTypes == {"Int32"}
Spans == {7}
Depths == {0, 1}
StartCounters == {0, U16_MAX - 1}

Var(n) == [kind |-> "Var", n |-> n]
Param(n) == [kind |-> "Param", n |-> n]

\* ir::LocalInfo::new
LocalInfo(local, typ, span) == [id |-> local, typ |-> typ, span |-> span]

\* Locals::new(counter, depth)
LocalsNew(depth) == [locals |-> <<>>, depth |-> depth]

CounterIncrMutant(c, b) == [panic |-> FALSE, v |-> c]
\* `self.counter.get() + 1` on a u16: past 65535 the addition panics when
\* overflow checks are on and wraps to 0 when they are off.
CounterIncr(c, b) ==
    IF c + 1 > U16_MAX
    THEN IF b = "debug" THEN [panic |-> TRUE, v |-> c]
         ELSE [panic |-> FALSE, v |-> (c + 1) % (U16_MAX + 1)]
    ELSE [panic |-> FALSE, v |-> c + 1]

NoAdd == [op |-> "none", tab |-> 0, pre |-> 0, n |-> 0]

\* Locals::add(local, typ, span): bump the counter, then push the entry.
Add(op, t, local, typ, span) ==
    LET inc == CounterIncr(counter, build) IN
    /\ lastAdd' = [op |-> op, tab |-> t, pre |-> counter, n |-> lastAdd.n + 1]
    /\ IF inc.panic
       THEN /\ panicked' = TRUE
            /\ UNCHANGED <<counter, tables>>
       ELSE /\ counter' = inc.v
            /\ tables' = [tables EXCEPT ![t].locals =
                              Append(@, LocalInfo(local, typ, span))]
            /\ UNCHANGED panicked
    /\ UNCHANGED <<syntaxVars, lowerVars, build, c0, filesVars, captureVars, resolveVars>>

\* Locals::add_var(typ, span)
AddVar(t, typ, span) ==
    /\ ~panicked
    /\ lastAdd.n < MaxAdds
    /\ t \in 1 .. Len(tables)
    /\ Add("add_var", t, Var(counter), typ, Some(span))

\* Locals::add_param(typ, span)
AddParam(t, typ, span) ==
    /\ ~panicked
    /\ lastAdd.n < MaxAdds
    /\ t \in 1 .. Len(tables)
    /\ Add("add_param", t, Param(counter), typ, span)

\* Locals::new(counter, depth) on the shared counter.
NewLocals(depth) ==
    /\ ~panicked
    /\ Len(tables) < MaxTables
    /\ tables' = Append(tables, LocalsNew(depth))
    /\ lastAdd' = [op |-> "new", tab |-> Len(tables) + 1, pre |-> counter,
                   n |-> lastAdd.n]
    /\ UNCHANGED <<syntaxVars, lowerVars, build, panicked, counter, c0, filesVars, captureVars,
                   resolveVars>>

\* ========================================================================
\* Capture                                     (compiler/frontend/lower/env.rs)
\* ========================================================================
CapLocals == {Var(0), Var(3), Param(0), Param(3)}

\* Capture::new
Capture(captured, depth) == [captured |-> captured, depth |-> depth]

\* u16::checked_sub(1)
CheckedSub1(d) == IF d >= 1 THEN Some(d - 1) ELSE None

CapturePopScopeMutant(c) == Some(Capture(c.captured, Max(c.depth - 1, 0)))
\* Capture::pop_scope(&self)
CapturePopScope(c) ==
    LET d == CheckedSub1(c.depth) IN
    IF d.some THEN Some(Capture(c.captured, d.v)) ELSE None

\* One more application of pop_scope to the running Option<Capture>
\* (nothing is left to pop once it is None).
PopScope ==
    /\ capK < MaxPops
    /\ capK' = capK + 1
    /\ capCur' = IF capCur.some THEN CapturePopScope(capCur.v) ELSE None
    /\ capSelf' = capCur
    /\ UNCHANGED <<syntaxVars, lowerVars, build, panicked, cap0, filesVars, localsVars, resolveVars>>

\* ------------------------------------------------------------------------
\* Idle values of each component, and the specifications
\* ------------------------------------------------------------------------
IdleFiles ==
    front = <<>> /\ back = <<>> /\ pushes = <<>> /\ lastGet = NoGet /\ lookup = <<>>
IdleLocals == counter = 0 /\ tables = <<>> /\ c0 = 0 /\ lastAdd = NoAdd
IdleCapture ==
    /\ cap0 = Capture(Var(0), 0)
    /\ capCur = Some(cap0)
    /\ capK = 0
    /\ capSelf = None
IdleResolve ==
    params = <<>> /\ cells = <<>> /\ nextRc = 0 /\ last = None /\ hist = <<>>
IdleAst == findAt = <<>> /\ opName = <<>>
IdleSyntax == climb = <<>> /\ parse = <<>> /\ IdleAst
IdleErrors == errCall = <<>>
IdleQuery == funcs = <<>> /\ query = <<>>
IdleScopes ==
    subject = "" /\ layers = <<>> /\ born = <<>> /\ put = <<>> /\ scopeCall = <<>>
IdleLower == IdleErrors /\ IdleQuery /\ IdleScopes

InitFiles ==
    /\ build \in Builds
    /\ panicked = FALSE
    /\ IdleFiles /\ IdleLocals /\ IdleCapture /\ IdleResolve /\ IdleSyntax /\ IdleLower

NextFiles ==
    \/ \E p \in Paths, s \in Sources : PushFront(p, s)
    \/ \E p \in Paths, s \in Sources : PushBack(p, s)
    \/ \E id \in GetIds : Get(id)
    \/ LenCall

SpecFiles == InitFiles /\ [][NextFiles]_vars

InitLocals ==
    /\ build \in Builds
    /\ panicked = FALSE
    /\ counter \in StartCounters
    /\ c0 = counter
    /\ tables = <<LocalsNew(0)>>
    /\ lastAdd = NoAdd
    /\ IdleFiles /\ IdleCapture /\ IdleResolve /\ IdleSyntax /\ IdleLower

NextLocals ==
    \/ \E d \in Depths : NewLocals(d)
    \/ \E t \in 1 .. MaxTables, ty \in PolyTypes, s \in Spans : AddVar(t, ty, s)
    \/ \E t \in 1 .. MaxTables, ty \in PolyTypes, s \in {None} \cup {Some(x) : x \in Spans} :
           AddParam(t, ty, s)

SpecLocals == InitLocals /\ [][NextLocals]_vars

InitCapture ==
    /\ build = "debug"
    /\ panicked = FALSE
    /\ cap0 \in {Capture(l, d) : l \in CapLocals, d \in 0 .. MaxCapDepth}
    /\ capCur = Some(cap0)
    /\ capK = 0
    /\ capSelf = None
    /\ IdleFiles /\ IdleLocals /\ IdleResolve /\ IdleSyntax /\ IdleLower

NextCapture == PopScope

SpecCapture == InitCapture /\ [][NextCapture]_vars

\* ========================================================================
\* TypeEnv, TypeRef, resolve                   (compiler/frontend/lower/env.rs)
\* ========================================================================
\* crate::types::MAX_FN_ARITY and MAX_STATIC_ARRAY_SIZE (used by error.rs and
\* by fn_with_arity / array_with_size); resolve is parametric in them.
MAX_FN_ARITY == 2
MAX_STATIC_ARRAY_SIZE == 3

\* ---- TypeId ---------------------------------------------------------------
TypeId(id, n) == [id |-> id, n |-> n]
ARRAY == TypeId("array", 0)
REF == TypeId("ref", 0)
WREF == TypeId("wref", 0)
SCRIPT_REF == TypeId("script_ref", 0)
INT32 == TypeId("Int32", 0)

\* TypeId::fn_with_arity(n): the id of an n-parameter function, if any.
FnWithArity(n) ==
    IF n <= MAX_FN_ARITY THEN Some(TypeId("fn_with_arity", n)) ELSE None

\* TypeId::array_with_size(n): the id of a static array of n elements, if any.
ArrayWithSize(n) ==
    IF n <= MAX_STATIC_ARRAY_SIZE THEN Some(TypeId("array_with_size", n)) ELSE None

\* ---- ast::Type ------------------------------------------------------------
\* A component's span is carried next to it in the source; here it is
\* determined by the component's position: ChildSpan(s, i) is the span of
\* the i-th component of the type at span s.
Named(name, args) == [k |-> "Named", name |-> name, args |-> args, size |-> 0]
ArrayT(elem) == [k |-> "Array", name |-> "", args |-> <<elem>>, size |-> 0]
StaticArrayT(elem, size) ==
    [k |-> "StaticArray", name |-> "", args |-> <<elem>>, size |-> size]
\* args holds the parameters followed by the return type.
FnT(ps, ret) == [k |-> "Fn", name |-> "", args |-> ps \o <<ret>>, size |-> 0]
Plain(name) == Named(name, <<>>)

ChildSpan(s, i) == s * 4 + i

\* ---- Type, CtxVar, Error ----------------------------------------------------
App(id, args) == [k |-> "App", id |-> id, args |-> args]
Ctx(var) == [k |-> "Ctx", var |-> var]

\* CtxVar::new(name, variance, lower, upper)
CtxVar(name, variance, lower, upper) ==
    [name |-> name, variance |-> variance, lower |-> lower, upper |-> upper]

\* Rc::new(var): the allocation `rc` is the variable's identity.
RcNew(rc, var) == [rc |-> rc, var |-> var]

Ok(v) == [ok |-> TRUE, v |-> v]
Err(e) == [ok |-> FALSE, err |-> e]
Error(kind, name, span) == [kind |-> kind, name |-> name, span |-> span]

\* ---- TypeRef and the scoped map -------------------------------------------
NameRef(id) == [k |-> "Name", id |-> id]
VarRef(var) == [k |-> "Var", var |-> var]
LazyRef(c) == [k |-> "LazyVar", cell |-> c]

EmptyScope == [x \in {} |-> None]

\* ScopedMap::get: the binding of the innermost scope that has the name.
RECURSIVE ScopedGetFrom(_, _, _)
ScopedGetFrom(env, name, i) ==
    IF i = 0 THEN None
    ELSE IF name \in DOMAIN env[i] THEN Some(env[i][name])
         ELSE ScopedGetFrom(env, name, i - 1)

\* TypeEnv::get
TypeEnvGetMutant(env, name) == ScopedGetFrom(env, name, 1)
TypeEnvGet(env, name) == ScopedGetFrom(env, name, Len(env))

\* TypeEnv::add: insert into the topmost scope.
TypeEnvAddMutant(env, name, ref) == [env EXCEPT ![1] = (name :> ref) @@ @]
TypeEnvAdd(env, name, ref) == [env EXCEPT ![Len(env)] = (name :> ref) @@ @]

\* TypeEnv::introduce_scope
TypeEnvIntroduceScope(env) == Append(env, EmptyScope)

\* TypeEnv::with_default_types
WithDefaultTypes ==
    << ("array" :> NameRef(ARRAY)) @@ ("ref" :> NameRef(REF)) @@
       ("wref" :> NameRef(WREF)) @@ ("script_ref" :> NameRef(SCRIPT_REF)) >>

\* ---- The Lazy cells, their parameters, the environments ------------------
Cells == {"T", "U"}

\* Context variables bound eagerly (TypeRef::Var).
VarW == RcNew(100, CtxVar("W", "Invariant", None, None))
VarU == RcNew(101, CtxVar("U", "Invariant", None, None))

\* The global scope: the predefined names and one declared type.
EnvGlobal == TypeEnvAdd(WithDefaultTypes, "Int32", NameRef(INT32))
\* Inside a generic declaration: its type parameters T and U are LazyVars on
\* the cells, W is an already built variable.
EnvLazy ==
    TypeEnvAdd(TypeEnvAdd(TypeEnvAdd(TypeEnvIntroduceScope(EnvGlobal),
        "T", LazyRef("T")), "U", LazyRef("U")), "W", VarRef(VarW))
\* A scope below it in which U is an already built variable.
EnvInner == TypeEnvAdd(TypeEnvIntroduceScope(EnvLazy), "U", VarRef(VarU))
\* A scope below it that rebinds the name `ref`.
EnvShadow == TypeEnvAdd(TypeEnvIntroduceScope(EnvLazy), "ref", NameRef(INT32))

\* The environments, by name.
EnvNames == {"global", "lazy", "inner", "shadow"}
EnvOf(e) ==
    IF e = "global" THEN EnvGlobal
    ELSE IF e = "lazy" THEN EnvLazy
    ELSE IF e = "inner" THEN EnvInner
    ELSE EnvShadow

\* The span of a resolve call, and the span of each parameter's bound.
CallSpan == 1
BoundSpan(c) == IF c = "T" THEN 2 ELSE 3

\* ast::TypeParam
TypeParam(name, variance, upper) ==
    [name |-> name, variance |-> variance, upper |-> upper]

\* The upper bounds a type parameter is declared with.
Bounds ==
    {None} \cup
    {Some(t) : t \in {Plain("T"), Plain("U"), ArrayT(Plain("U")), Plain("X")}}

Variance(c) == IF c = "T" THEN "Covariant" ELSE "Invariant"

\* ---- Lazy cell state -------------------------------------------------------
Pending == [st |-> "Pending", val |-> None]
InProgress == [st |-> "InProgress", val |-> None]
Done(v) == [st |-> "Done", val |-> Some(v)]

\* The store a resolve call threads through: the cells, the allocator, and,
\* for the record, how often each thunk ran and which cells reported a
\* reentrant force during the call.
Store(cs, rc) ==
    [cells |-> cs, nextRc |-> rc, runs |-> [c \in Cells |-> 0], reent |-> {}]

\* ---- resolve ---------------------------------------------------------------
IsRefSugarMutant(id, args) == FALSE
IsRefSugarAnyMutant(id, args) == id = REF /\ Len(args) >= 1
\* `(Some(&TypeRef::Name(id)), [(arg, span)]) if id == predef::REF`
IsRefSugar(id, args) == id = REF /\ Len(args) = 1

CyclicErrorMutant(span) == Error("UnresolvedType", "", span)
\* `.map_err(|_| Error::CyclicType(span))`
CyclicError(span) == Error("CyclicType", "", span)

CtxOfMutant(var) == Ctx(RcNew(var.rc + 1000, var.var))
\* `Type::Ctx(rc)`: the type of the shared variable itself.
CtxOf(var) == Ctx(var)

StaticArrayIdMutant(size, span) == Ok(TypeId("array_with_size", size))
\* `TypeId::array_with_size(*size).ok_or(Error::UnsupportedStaticArraySize(span))`
StaticArrayId(size, span) ==
    LET id == ArrayWithSize(size) IN
    IF id.some THEN Ok(id.v) ELSE Err(Error("UnsupportedStaticArraySize", "", span))

FnIdWrapMutant(n, span) == Ok(TypeId("fn_with_arity", n))
\* `TypeId::fn_with_arity(params.len()).ok_or(Error::UnsupportedArity(span))`
FnId(n, span) ==
    LET id == FnWithArity(n) IN
    IF id.some THEN Ok(id.v) ELSE Err(Error("UnsupportedArity", "", span))

LazyArmMutant(g, span) ==
    IF g.val.ok THEN Ok(CtxOf(g.val.v)) ELSE g.val
\* The LazyVar arm, given the outcome g of stub.get(self):
\* `Ok(Type::Ctx(stub.get(self).map_err(|_| Error::CyclicType(span))??))`
LazyArm(g, span) ==
    IF g.cycle THEN Err(CyclicError(span))
    ELSE IF g.val.ok THEN Ok(CtxOf(g.val.v))
    ELSE g.val

VarArmMutant(var, args) ==
    IF \E i \in DOMAIN args : args[i].k # "Named"
    THEN Err(Error("UnresolvedType", "", 0))
    ELSE Ok(Ctx(var))
\* `(Some(TypeRef::Var(var)), _) => Ok(Type::Ctx(var.clone()))`: the
\* arguments are not looked at.
VarArm(var, args) == Ok(Ctx(var))

RECURSIVE Resolve(_, _, _, _, _)
RECURSIVE ResolveAll(_, _, _, _, _, _)
RECURSIVE ResolveParam(_, _, _, _)
RECURSIVE Thunk(_, _, _, _)
RECURSIVE LazyGet(_, _, _, _)

\* TypeEnv::resolve(typ, span) in store st.  `fuel` is the number of nested
\* thunk runs still followed.
Resolve(env, st, typ, span, fuel) ==
    IF typ.k = "Named" THEN
        LET ref == TypeEnvGet(env, typ.name) IN
        IF ~ref.some THEN
            [val |-> Err(Error("UnresolvedType", typ.name, span)), st |-> st]
        ELSE IF ref.v.k = "Name" THEN
            IF IsRefSugar(ref.v.id, typ.args) THEN
                Resolve(env, st, typ.args[1], ChildSpan(span, 1), fuel)
            ELSE
                LET r == ResolveAll(env, st, typ.args, span, 1, fuel) IN
                IF r.val.ok THEN [val |-> Ok(App(ref.v.id, r.val.v)), st |-> r.st]
                ELSE r
        ELSE IF ref.v.k = "Var" THEN
            [val |-> VarArm(ref.v.var, typ.args), st |-> st]
        ELSE
            LET g == LazyGet(env, st, ref.v.cell, fuel) IN
            [val |-> LazyArm(g, span), st |-> g.st]
    ELSE IF typ.k = "Array" THEN
        LET r == Resolve(env, st, typ.args[1], ChildSpan(span, 1), fuel) IN
        IF r.val.ok THEN [val |-> Ok(App(ARRAY, <<r.val.v>>)), st |-> r.st]
        ELSE r
    ELSE IF typ.k = "StaticArray" THEN
        LET r == Resolve(env, st, typ.args[1], ChildSpan(span, 1), fuel) IN
        IF ~r.val.ok THEN r
        ELSE LET id == StaticArrayId(typ.size, span) IN
             IF id.ok THEN [val |-> Ok(App(id.v, <<r.val.v>>)), st |-> r.st]
             ELSE [val |-> id, st |-> r.st]
    ELSE
        LET r == ResolveAll(env, st, typ.args, span, 1, fuel) IN
        IF ~r.val.ok THEN r
        ELSE LET id == FnId(Len(typ.args) - 1, span) IN
             IF id.ok THEN [val |-> Ok(App(id.v, r.val.v)), st |-> r.st]
             ELSE [val |-> id, st |-> r.st]

\* The components resolved from the last one backwards.
ResolveAllMutant(env, st, args, span, i, fuel) ==
    IF i > Len(args) THEN [val |-> Ok(<<>>), st |-> st]
    ELSE LET rest == ResolveAll(env, st, args, span, i + 1, fuel) IN
         IF ~rest.val.ok THEN rest
         ELSE LET r == Resolve(env, rest.st, args[i], ChildSpan(span, i), fuel) IN
              IF r.val.ok
              THEN [val |-> Ok(<<r.val.v>> \o rest.val.v), st |-> r.st]
              ELSE r

\* `.map(|(typ, span)| self.resolve(typ, *span)).collect::<Result<Rc<_>, _>>()`
\* from the i-th component on: in order, stopping at the first error.
ResolveAll(env, st, args, span, i, fuel) ==
    IF i > Len(args) THEN [val |-> Ok(<<>>), st |-> st]
    ELSE LET r == Resolve(env, st, args[i], ChildSpan(span, i), fuel) IN
         IF ~r.val.ok THEN r
         ELSE LET rest == ResolveAll(env, r.st, args, span, i + 1, fuel) IN
              IF rest.val.ok
              THEN [val |-> Ok(<<r.val.v>> \o rest.val.v), st |-> rest.st]
              ELSE rest

\* TypeEnv::resolve_param(param); c is the cell whose bound span is used.
ResolveParam(env, st, c, fuel) ==
    LET param == params[c] IN
    IF param.upper.some THEN
        LET r == Resolve(env, st, param.upper.v, BoundSpan(c), fuel) IN
        IF r.val.ok
        THEN [val |-> Ok(CtxVar(param.name, param.variance, None, Some(r.val.v))),
              st |-> r.st]
        ELSE r
    ELSE [val |-> Ok(CtxVar(param.name, param.variance, None, None)), st |-> st]

\* The suspension behind a LazyVar: resolve the parameter against the
\* environment it is forced with and share the variable.
Thunk(env, st, c, fuel) ==
    LET r == ResolveParam(env, st, c, fuel) IN
    IF r.val.ok
    THEN [val |-> Ok(RcNew(r.st.nextRc, r.val.v)),
          st |-> [r.st EXCEPT !.nextRc = @ + 1]]
    ELSE r

\* Lazy::get(env): a finished cell answers from memory; a cell found in
\* progress reports the reentrant force and is left alone; otherwise the
\* thunk runs with the cell marked in progress, and the cell keeps the
\* variable of a successful force and is un-initialised again after a
\* failed one.
LazyGet(env, st, c, fuel) ==
    LET cell == st.cells[c] IN
    IF cell.st = "Done" THEN
        [cycle |-> FALSE, val |-> Ok(cell.val.v), st |-> st]
    ELSE IF cell.st = "InProgress" THEN
        [cycle |-> TRUE, val |-> Err(Error("Reentrant", "", 0)),
         st |-> [st EXCEPT !.reent = @ \cup {c}]]
    ELSE IF fuel = 0 THEN
        [cycle |-> FALSE, val |-> Err(Error("Diverged", "", 0)), st |-> st]
    ELSE
        LET st1 == [st EXCEPT !.cells[c] = InProgress, !.runs[c] = @ + 1]
            t == Thunk(env, st1, c, fuel - 1)
            after == IF t.val.ok THEN Done(t.val.v) ELSE Pending
        IN [cycle |-> FALSE, val |-> t.val,
            st |-> [t.st EXCEPT !.cells[c] = after]]

\* ---- The resolve calls of a behaviour --------------------------------------
CallTypes ==
    {Plain("T"), Plain("U"), ArrayT(Plain("T")), Named("W", <<Plain("X")>>)}

NoCall == [op |-> "none", env |-> "", typ |-> Plain(""), val |-> Ok(0),
           runs |-> [c \in Cells |-> 0], reent |-> {},
           pre |-> [cells |-> <<>>, nextRc |-> 0]]

NoHist == [c \in Cells |-> [first |-> None, env |-> "", cyc |-> FALSE]]

\* The effect of one EnvOf(env).resolve(typ, CallSpan) call, recorded as op.
DoResolve(op, env, typ) ==
    \E r \in {Resolve(EnvOf(env), Store(cells, nextRc), typ, CallSpan,
                     MaxForceDepth)} :
    /\ cells' = r.st.cells
    /\ nextRc' = r.st.nextRc
    /\ last' = [op |-> op, env |-> env, typ |-> typ, val |-> r.val,
                runs |-> r.st.runs, reent |-> r.st.reent,
                pre |-> [cells |-> cells, nextRc |-> nextRc]]
    /\ hist' = [c \in Cells |->
                 [first |-> IF hist[c].first.some THEN hist[c].first
                            ELSE IF r.st.cells[c].st = "Done"
                                 THEN r.st.cells[c].val ELSE None,
                  env |-> IF ~hist[c].first.some /\ r.st.cells[c].st = "Done"
                          THEN env ELSE hist[c].env,
                  cyc |-> hist[c].cyc \/ c \in r.st.reent]]
    /\ UNCHANGED <<syntaxVars, lowerVars, build, panicked, params, filesVars, localsVars, captureVars>>

\* env.resolve(typ, span), a whole call, at any time.
ResolveCall(env, typ) == DoResolve("resolve", env, typ)

InitResolve ==
    /\ build = "debug"
    /\ panicked = FALSE
    /\ params \in [Cells -> {TypeParam(c, Variance(c), b) : c \in Cells, b \in Bounds}]
    /\ \A c \in Cells : params[c].name = c
    /\ cells = [c \in Cells |-> Pending]
    /\ nextRc = 0
    /\ last = NoCall
    /\ hist = NoHist
    /\ IdleFiles /\ IdleLocals /\ IdleCapture /\ IdleSyntax /\ IdleLower

NextResolve == \E env \in EnvNames, typ \in CallTypes : ResolveCall(env, typ)

SpecResolve == InitResolve /\ [][NextResolve]_vars

\* ---- resolve as a function of its input -------------------------------------
\* The source types resolve is applied to: the leaves, every constructor
\* over them, and the constructors nested once more.
LeafTypes == {Plain(n) : n \in {"Int32", "T", "U", "W", "X", "ref"}}
FewLeaves == {Plain("Int32"), Plain("X"), Plain("T")}

Depth1Types ==
    {Named(h, <<l>>) : h \in {"ref", "array", "W", "T", "X"}, l \in LeafTypes}
    \cup {Named(h, <<l, m>>) : h \in {"ref", "array"}, l \in FewLeaves, m \in FewLeaves}
    \cup {ArrayT(l) : l \in LeafTypes}
    \cup {StaticArrayT(l, n) : l \in LeafTypes,
              n \in {MAX_STATIC_ARRAY_SIZE, MAX_STATIC_ARRAY_SIZE + 1}}
    \cup {FnT(<<>>, l) : l \in LeafTypes}
    \cup {FnT(<<l>>, m) : l \in FewLeaves, m \in FewLeaves}
    \cup {FnT([i \in 1 .. MAX_FN_ARITY + 1 |-> l], m) : l \in FewLeaves, m \in FewLeaves}

Depth2Types ==
    {Named("ref", <<t>>) : t \in Depth1Types}
    \cup {Named("W", <<t>>) : t \in Depth1Types}
    \cup {StaticArrayT(Named("ref", <<l>>), MAX_STATIC_ARRAY_SIZE + 1) : l \in LeafTypes}
    \cup {FnT(<<Named("W", <<l>>), m>>, Plain("Int32")) : l \in FewLeaves, m \in FewLeaves}

TestTypes == LeafTypes \cup Depth1Types \cup Depth2Types

\* A first call that may have forced some cells before the call under test.
WarmUp(env, c) ==
    /\ last.op = "none"
    /\ DoResolve("warm", env, Plain(c))

\* The call under test.
Apply(env, typ) ==
    /\ last.op \in {"none", "warm"}
    /\ DoResolve("apply", env, typ)

NextResolveFn ==
    \/ \E env \in {"lazy", "inner"}, c \in Cells : WarmUp(env, c)
    \/ \E env \in EnvNames, typ \in TestTypes : Apply(env, typ)

SpecResolveFn == InitResolve /\ [][NextResolveFn]_vars

\* ========================================================================
\* BinOp and climb_prec        (syntax/ast/src/ast.rs, parser/src/parser/expr.rs)
\* ========================================================================
MaxChain == 3       \* longest operator chain over all 22 operators
MaxLongChain == 5   \* longest operator chain over SomeOps

AssignOps == {"AssignAdd", "AssignSub", "AssignMul", "AssignDiv",
              "AssignBitOr", "AssignBitAnd"}

BinOp ==
    AssignOps \cup {"Or", "And", "BitOr", "BitXor", "BitAnd", "Eq", "Ne", "Lt",
                    "Le", "Gt", "Ge", "Add", "Sub", "Mul", "Div", "Mod"}

\* BinOp::precedence
Precedence(op) ==
    IF op \in AssignOps THEN 0
    ELSE IF op = "Or" THEN 1
    ELSE IF op = "And" THEN 2
    ELSE IF op = "BitOr" THEN 3
    ELSE IF op = "BitXor" THEN 4
    ELSE IF op = "BitAnd" THEN 5
    ELSE IF op \in {"Eq", "Ne"} THEN 6
    ELSE IF op \in {"Lt", "Le", "Gt", "Ge"} THEN 7
    ELSE IF op \in {"Add", "Sub"} THEN 8
    ELSE 9

\* BinOp::assoc
Assoc(op) == IF op \in AssignOps THEN "Right" ELSE "Left"

\* Span and Span::union.
Span(start, end) == [start |-> start, end |-> end]
SpanUnion(a, b) ==
    Span(IF a.start < b.start THEN a.start ELSE b.start, Max(a.end, b.end))

\* A spanned expression (SourceExpr, Span).
Spanned(e, span) == [e |-> e, span |-> span]

\* Expr::BinOp
BinOpExpr(lhs, op, rhs) == [k |-> "BinOp", lhs |-> lhs, op |-> op, rhs |-> rhs]

\* The j-th operand of a chain (j = 0 is the left operand), a leaf with the
\* span of its token.
Operand(j) == Spanned([k |-> "Ident", name |-> j], Span(4 * j, 4 * j + 1))

\* The (operator, operand) pairs the iterator of climb_prec yields.
PairsOf(ops) == [j \in 1 .. Len(ops) |-> [op |-> ops[j], rhs |-> Operand(j)]]

\* expr.rs line 290 and lines 292-293: the two conditions under which the
\* right operand absorbs the lookahead operator.
BindsTighter(lookahead, op) == Precedence(lookahead) > Precedence(op)

FoldsRightMutant(lookahead, op) == Precedence(lookahead) = Precedence(op)
FoldsRight(lookahead, op) ==
    Assoc(lookahead) = "Right" /\ Precedence(lookahead) = Precedence(op)

ClimbNodeMutant(lhs, op, rhs) ==
    Spanned(BinOpExpr(rhs, op, lhs), SpanUnion(lhs.span, rhs.span))
\* expr.rs lines 297-305: the node of `op` over lhs and the finished rhs.
ClimbNode(lhs, op, rhs) ==
    Spanned(BinOpExpr(lhs, op, rhs), SpanUnion(lhs.span, rhs.span))

\* climb_prec(lhs, it, min_prec), the iterator being the pairs from index i
\* on; the result carries the iterator's new position.  ClimbRhs is the
\* inner loop that extends the right operand of `op`.
RECURSIVE ClimbPrec(_, _, _, _), ClimbRhs(_, _, _, _)
ClimbRhs(rhs, pairs, i, op) ==
    IF i > Len(pairs) THEN [e |-> rhs, i |-> i]
    ELSE IF BindsTighter(pairs[i].op, op) THEN
        LET r == ClimbPrec(rhs, pairs, i, Precedence(op) + 1) IN
        ClimbRhs(r.e, pairs, r.i, op)
    ELSE IF FoldsRight(pairs[i].op, op) THEN
        LET r == ClimbPrec(rhs, pairs, i, Precedence(op)) IN
        ClimbRhs(r.e, pairs, r.i, op)
    ELSE [e |-> rhs, i |-> i]

ClimbPrec(lhs, pairs, i, min_prec) ==
    IF i <= Len(pairs) /\ Precedence(pairs[i].op) >= min_prec THEN
        LET op == pairs[i].op
            r == ClimbRhs(pairs[i].rhs, pairs, i + 1, op) IN
        ClimbPrec(ClimbNode(lhs, op, r.e), pairs, r.i, min_prec)
    ELSE [e |-> lhs, i |-> i]

\* The chains climb_prec is applied to: every chain of up to MaxChain
\* operators, and longer chains over a few operators of each kind.
SomeOps == {"AssignAdd", "Add", "Sub", "Mul", "Div"}

InChains(ops) ==
    \/ Len(ops) <= MaxChain
    \/ Len(ops) <= MaxLongChain /\ \A j \in 1 .. Len(ops) : ops[j] \in SomeOps

NoClimb == [op |-> "none", ops |-> <<>>, out |-> [e |-> Operand(0), i |-> 1]]

\* binops (expr.rs 239-243): climb_prec(lhs, pairs, 0) over a whole chain,
\* the chain of the previous call with one more (operator, operand) pair.
ClimbCall(op) ==
    LET ops == Append(climb.ops, op) IN
    /\ InChains(ops)
    /\ climb' = [op |-> "climb", ops |-> ops,
                 out |-> ClimbPrec(Operand(0), PairsOf(ops), 1, 0)]
    /\ UNCHANGED <<parse, findAt, opName, lowerVars, build, panicked, filesVars, localsVars,
                   captureVars,
                   resolveVars>>

InitClimb ==
    /\ build = "debug"
    /\ panicked = FALSE
    /\ climb = NoClimb
    /\ parse = <<>>
    /\ IdleAst
    /\ IdleFiles /\ IdleLocals /\ IdleCapture /\ IdleResolve /\ IdleLower

NextClimb == \E op \in BinOp : ClimbCall(op)

SpecClimb == InitClimb /\ [][NextClimb]_vars

\* ========================================================================
\* The expression parser         (syntax/parser/src/parser.rs, parser/expr.rs)
\* ========================================================================
\* A token stream is a sequence of tokens, each written as its source text.
\* The parsers are chumsky combinators: a choice takes the first alternative
\* that succeeds, a repetition stops (and rewinds) at the first item that
\* fails, and a failed parser leaves no diagnostic behind.  A parser applied
\* to tokens t at position p answers PFail or POk(value, next position,
\* diagnostics emitted).
IdentToks == {"a", "b", "c", "as", "new"}
ValueToks == {"1", "true", "false", "null"}
ExtendedIdentToks == IdentToks \cup {"true", "false", "default"}
UnopToks == {"-", "!", "~"}
BinopToks == {"+=", "-=", "*=", "/=", "|=", "&=", "+", "-", "*", "/", "%", "==",
              "!=", "<", "<=", ">", ">=", "&&", "||", "&", "|", "^"}
Openers == {"(", "[", "{"}
Closers == {")", "]", "}"}
CloserOf(x) == IF x = "(" THEN ")" ELSE IF x = "[" THEN "]" ELSE "}"

\* select! for binop (expr.rs 58-81) and unop (51-55).
BinOpOf(tok) ==
    CASE tok = "+=" -> "AssignAdd" [] tok = "-=" -> "AssignSub"
      [] tok = "*=" -> "AssignMul" [] tok = "/=" -> "AssignDiv"
      [] tok = "|=" -> "AssignBitOr" [] tok = "&=" -> "AssignBitAnd"
      [] tok = "+" -> "Add" [] tok = "-" -> "Sub" [] tok = "*" -> "Mul"
      [] tok = "/" -> "Div" [] tok = "%" -> "Mod" [] tok = "==" -> "Eq"
      [] tok = "!=" -> "Ne" [] tok = "<" -> "Lt" [] tok = "<=" -> "Le"
      [] tok = ">" -> "Gt" [] tok = ">=" -> "Ge" [] tok = "&&" -> "And"
      [] tok = "||" -> "Or" [] tok = "&" -> "BitAnd" [] tok = "|" -> "BitOr"
      [] OTHER -> "BitXor"
UnOpOf(tok) == IF tok = "-" THEN "Neg" ELSE IF tok = "!" THEN "Not" ELSE "BitNot"

Tok(t, p) == IF p <= Len(t) THEN t[p] ELSE "EOF"

\* The span of the tokens p .. q - 1 (token i lies at bytes 2i .. 2i + 1).
TokSpan(p, q) == IF q > p THEN Span(2 * p, 2 * q - 1) ELSE Span(2 * p, 2 * p)

PFail == [ok |-> FALSE]
POk(v, pos, errs) == [ok |-> TRUE, v |-> v, pos |-> pos, errs |-> errs]

\* Diagnostics.
SyntaxError(p) == [msg |-> "syntax error", at |-> p]
UnexpectedPeriod(span) == [msg |-> "unexpected '.'", at |-> span]

\* Expr constructors.
ErrorExpr == [k |-> "Error"]
IdentExpr(name) == [k |-> "Ident", name |-> name]
ConstantExpr(tok) == [k |-> "Constant", value |-> tok]
ArrayLitExpr(els) == [k |-> "ArrayLit", els |-> els]
LambdaExpr(ps, body) == [k |-> "Lambda", params |-> ps, body |-> body]
NewExpr(typ, args) == [k |-> "New", typ |-> typ, args |-> args]
MemberExpr(expr, member) == [k |-> "Member", expr |-> expr, member |-> member]
IndexExpr(expr, index) == [k |-> "Index", expr |-> expr, index |-> index]
CallExpr(expr, targs, args) ==
    [k |-> "Call", expr |-> expr, type_args |-> targs, args |-> args]
UnOpExpr(op, expr) == [k |-> "UnOp", op |-> op, expr |-> expr]
DynCastExpr(expr, typ) == [k |-> "DynCast", expr |-> expr, typ |-> typ]
ConditionalExpr(cond, then, els) ==
    [k |-> "Conditional", cond |-> cond, then |-> then, else_ |-> els]
AssignExpr(lhs, rhs) == [k |-> "Assign", lhs |-> lhs, rhs |-> rhs]
\* Block::new, Block::single, Stmt::Expr
BlockNew(stmts) == [k |-> "Block", stmts |-> stmts]
StmtExpr(e) == [k |-> "Expr", expr |-> e]
BlockSingle(stmt) == BlockNew(<<stmt>>)

\* F applied to the one element of S: the value is computed once and then
\* used by F as often as needed.
Let(S, F(_)) == CHOOSE y \in {F(x) : x \in S} : TRUE

\* chumsky's nested_delimiters: the body of a delimited region is any run of
\* tokens that are no delimiters and of regions of the three kinds, each
\* closed by its own closer.  SkipBlock answers where that run stops.
RECURSIVE SkipBlock(_, _)
SkipBlock(t, q) ==
    IF Tok(t, q) = "EOF" \/ Tok(t, q) \in Closers THEN q
    ELSE IF Tok(t, q) \in Openers THEN
        Let({SkipBlock(t, q + 1)}, LAMBDA q2 :
            IF Tok(t, q2) = CloserOf(Tok(t, q)) THEN SkipBlock(t, q2 + 1) ELSE q)
    ELSE SkipBlock(t, q + 1)

NestedDelimiters(t, p, start) ==
    IF Tok(t, p) # start THEN PFail
    ELSE Let({SkipBlock(t, p + 1)}, LAMBDA q :
             IF Tok(t, q) = CloserOf(start)
             THEN POk(TokSpan(p, q + 1), q + 1, <<>>)
             ELSE PFail)

\* The placeholder that stands for a region.
Fallback(kind, span) ==
    IF kind = "expr" THEN Spanned(ErrorExpr, span)
    ELSE BlockSingle(Spanned(StmtExpr(Spanned(ErrorExpr, span)), span))

\* parser.recover_with(via_parser(nested_delimiters(start, ..))), r being
\* what the parser answered at p: when it failed, the region opening at p
\* stands in for it and the parser's error is emitted.
RecoverWithMutant(r, t, p, start, kind) == r
RecoverWith(r, t, p, start, kind) ==
    IF r.ok THEN r
    ELSE Let({NestedDelimiters(t, p, start)}, LAMBDA n :
             IF n.ok
             THEN POk(Fallback(kind, n.v), n.pos, <<SyntaxError(p)>>)
             ELSE PFail)

\* a.or(b), a being what the first parser answered.
OrElse(a, b) == IF a.ok THEN a ELSE b

\* type_with_span (parser.rs 168-205).
RECURSIVE TypeWithSpan(_, _), TypeList(_, _, _)
\* this.separated_by(Comma): the types from p on, after `items`.
TypeList(t, p, items) ==
    Let({TypeWithSpan(t, p)}, LAMBDA r :
        IF ~r.ok THEN [items |-> items, pos |-> p]
        ELSE IF Tok(t, r.pos) = ","
        THEN Let({TypeList(t, r.pos + 1, Append(items, r.v))}, LAMBDA more :
                 IF Len(more.items) > Len(items) + 1 THEN more
                 ELSE [items |-> Append(items, r.v), pos |-> r.pos])
        ELSE [items |-> Append(items, r.v), pos |-> r.pos])

\* [T] and [T; n]
ArrayType(t, p) ==
    IF Tok(t, p) # "[" THEN PFail
    ELSE Let({TypeWithSpan(t, p + 1)}, LAMBDA elem :
        IF ~elem.ok THEN PFail
        ELSE IF Tok(t, elem.pos) = ";" /\ Tok(t, elem.pos + 1) = "1"
                /\ Tok(t, elem.pos + 2) = "]"
        THEN POk(Spanned(StaticArrayT(elem.v, 1), TokSpan(p, elem.pos + 3)),
                 elem.pos + 3, <<>>)
        ELSE IF Tok(t, elem.pos) = "]"
        THEN POk(Spanned(ArrayT(elem.v), TokSpan(p, elem.pos + 1)), elem.pos + 1, <<>>)
        ELSE PFail)

\* name and name<T, ..>
NamedType(t, p) ==
    IF Tok(t, p) \notin IdentToks THEN PFail
    ELSE IF Tok(t, p + 1) # "<"
    THEN POk(Spanned(Named(Tok(t, p), <<>>), TokSpan(p, p + 1)), p + 1, <<>>)
    ELSE Let({TypeList(t, p + 2, <<>>)}, LAMBDA args :
        IF Tok(t, args.pos) = ">"
        THEN POk(Spanned(Named(Tok(t, p), args.items), TokSpan(p, args.pos + 1)),
                 args.pos + 1, <<>>)
        ELSE POk(Spanned(Named(Tok(t, p), <<>>), TokSpan(p, p + 1)), p + 1, <<>>))

\* (T, ..) -> R
FnType(t, p) ==
    IF Tok(t, p) # "(" THEN PFail
    ELSE Let({TypeList(t, p + 1, <<>>)}, LAMBDA ps :
        IF Tok(t, ps.pos) = ")" /\ Tok(t, ps.pos + 1) = "->"
        THEN Let({TypeWithSpan(t, ps.pos + 2)}, LAMBDA ret :
                 IF ret.ok
                 THEN POk(Spanned(FnT(ps.items, ret.v), TokSpan(p, ret.pos)),
                          ret.pos, <<>>)
                 ELSE PFail)
        ELSE PFail)

TypeWithSpan(t, p) ==
    Let({ArrayType(t, p)}, LAMBDA a :
        OrElse(a, Let({NamedType(t, p)}, LAMBDA n : OrElse(n, FnType(t, p)))))

\* type_arguments (expr.rs 105-111): typ.separated_by(Comma).allow_trailing()
\* between angle brackets.
TypeArguments(t, p) ==
    IF Tok(t, p) # "<" THEN PFail
    ELSE Let({TypeList(t, p + 1, <<>>)}, LAMBDA args :
        Let({IF Len(args.items) > 0 /\ Tok(t, args.pos) = ","
             THEN args.pos + 1 ELSE args.pos}, LAMBDA q :
            IF Tok(t, q) = ">" THEN POk(args.items, q + 1, <<>>) ELSE PFail))

\* lambda parameters (expr.rs 131-138): ident (":" typ)?, comma separated,
\* trailing comma allowed.
RECURSIVE LambdaParams(_, _, _)
LambdaParams(t, p, items) ==
    IF Tok(t, p) \notin IdentToks THEN [items |-> items, pos |-> p]
    ELSE Let({IF Tok(t, p + 1) = ":" THEN TypeWithSpan(t, p + 2) ELSE PFail},
             LAMBDA ty :
        Let({IF ty.ok THEN ty.pos ELSE p + 1}, LAMBDA q :
            Let({Spanned([name |-> Tok(t, p),
                          typ |-> IF ty.ok THEN Some(ty.v) ELSE None],
                         TokSpan(p, q))}, LAMBDA param :
                IF Tok(t, q) = ","
                THEN LambdaParams(t, q + 1, Append(items, param))
                ELSE [items |-> Append(items, param), pos |-> q])))

RECURSIVE ExprWithSpanRec(_, _), ExprList(_, _, _, _), Arguments(_, _),
          ArrayLit(_, _), NewAtom(_, _), Lambda(_, _), Parens(_, _),
          Atom(_, _), Member(_, _), MemberFold(_, _, _, _, _),
          ArrayAccess(_, _), Call(_, _), Unops(_, _),
          AsCasts(_, _, _, _, _), As(_, _), BinopPairs(_, _, _, _), Binops(_, _),
          Ternary(_, _), Assign(_, _), ExprWithSpanImpl(_, _),
          Stmts(_, _, _, _), BlockRec(_, _)

\* expr.separated_by(Comma).allow_trailing(): the expressions from p on,
\* after `items`.
ExprList(t, p, items, errs) ==
    Let({ExprWithSpanRec(t, p)}, LAMBDA r :
        IF ~r.ok THEN [items |-> items, pos |-> p, errs |-> errs]
        ELSE IF Tok(t, r.pos) = ","
        THEN ExprList(t, r.pos + 1, Append(items, r.v), errs \o r.errs)
        ELSE [items |-> Append(items, r.v), pos |-> r.pos, errs |-> errs \o r.errs])

\* arguments (expr.rs 98-104)
Arguments(t, p) ==
    IF Tok(t, p) # "(" THEN PFail
    ELSE Let({ExprList(t, p + 1, <<>>, <<>>)}, LAMBDA l :
        IF Tok(t, l.pos) = ")" THEN POk(l.items, l.pos + 1, l.errs) ELSE PFail)

\* The statements of a block; a statement is an expression followed by a
\* semicolon.
Stmts(t, p, items, errs) ==
    Let({ExprWithSpanRec(t, p)}, LAMBDA r :
        IF r.ok /\ Tok(t, r.pos) = ";"
        THEN Stmts(t, r.pos + 1,
                   Append(items, Spanned(StmtExpr(r.v), TokSpan(p, r.pos + 1))),
                   errs \o r.errs)
        ELSE [items |-> items, pos |-> p, errs |-> errs])

\* block_rec (parser.rs 103-122)
BlockRec(t, p) ==
    Let({IF Tok(t, p) # "{" THEN PFail
         ELSE Let({Stmts(t, p + 1, <<>>, <<>>)}, LAMBDA l :
                  IF Tok(t, l.pos) = "}"
                  THEN POk(BlockNew(l.items), l.pos + 1, l.errs)
                  ELSE PFail)},
        LAMBDA block : RecoverWith(block, t, p, "{", "block"))

\* array (expr.rs 122-129)
ArrayLit(t, p) ==
    IF Tok(t, p) # "[" THEN PFail
    ELSE Let({ExprList(t, p + 1, <<>>, <<>>)}, LAMBDA els :
        IF Tok(t, els.pos) = "]"
        THEN POk(ArrayLitExpr(els.items), els.pos + 1, els.errs)
        ELSE PFail)

\* new (expr.rs 113-120)
NewAtom(t, p) ==
    IF Tok(t, p) # "new" THEN PFail
    ELSE Let({TypeWithSpan(t, p + 1)}, LAMBDA typ :
        IF ~typ.ok THEN PFail
        ELSE Let({Arguments(t, typ.pos)}, LAMBDA args :
            IF args.ok THEN POk(NewExpr(typ.v, args.v), args.pos, args.errs)
            ELSE PFail))

\* lambda (expr.rs 131-150)
Lambda(t, p) ==
    IF Tok(t, p) # "(" THEN PFail
    ELSE Let({LambdaParams(t, p + 1, <<>>)}, LAMBDA ps :
        IF Tok(t, ps.pos) # ")" \/ Tok(t, ps.pos + 1) # "->" THEN PFail
        ELSE Let({BlockRec(t, ps.pos + 2)}, LAMBDA block :
            IF block.ok
            THEN POk(LambdaExpr(ps.items, [k |-> "Block", block |-> block.v]),
                     block.pos, block.errs)
            ELSE Let({ExprWithSpanRec(t, ps.pos + 2)}, LAMBDA body :
                IF body.ok
                THEN POk(LambdaExpr(ps.items, [k |-> "Inline", expr |-> body.v]),
                         body.pos, body.errs)
                ELSE PFail)))

\* parens (expr.rs 152-155)
Parens(t, p) ==
    IF Tok(t, p) # "(" THEN PFail
    ELSE Let({ExprWithSpanRec(t, p + 1)}, LAMBDA inner :
        IF inner.ok /\ Tok(t, inner.pos) = ")"
        THEN POk(inner.v, inner.pos + 1, inner.errs)
        ELSE PFail)

\* atom (expr.rs 157-176): the first of array, value, new, ident and lambda
\* that succeeds, paired with its span; else parens; else the region.
Atom(t, p) ==
    Let({Let({ArrayLit(t, p)}, LAMBDA array : OrElse(array,
             IF Tok(t, p) \in ValueToks THEN POk(ConstantExpr(Tok(t, p)), p + 1, <<>>)
             ELSE Let({NewAtom(t, p)}, LAMBDA new : OrElse(new,
                 IF Tok(t, p) \in IdentToks THEN POk(IdentExpr(Tok(t, p)), p + 1, <<>>)
                 ELSE Lambda(t, p)))))},
        LAMBDA c :
            Let({IF c.ok THEN POk(Spanned(c.v, TokSpan(p, c.pos)), c.pos, c.errs)
                 ELSE Parens(t, p)},
                LAMBDA found : RecoverWith(found, t, p, "(", "expr")))

\* array_access (expr.rs 182-186)
ArrayAccess(t, q) ==
    IF Tok(t, q) # "[" THEN PFail
    ELSE Let({ExprWithSpanRec(t, q + 1)}, LAMBDA index :
        IF index.ok /\ Tok(t, index.pos) = "]"
        THEN POk(index.v, index.pos + 1, index.errs)
        ELSE PFail)

\* call (expr.rs 187-191)
Call(t, q) ==
    Let({TypeArguments(t, q)}, LAMBDA targs :
        Let({Arguments(t, IF targs.ok THEN targs.pos ELSE q)}, LAMBDA args :
            IF args.ok
            THEN POk([type_args |-> IF targs.ok THEN targs.v ELSE <<>>,
                      args |-> args.v], args.pos, args.errs)
            ELSE PFail))

\* e.span() in the closure of the fold (expr.rs 206): the expression began at
\* token p, its last postfix operator runs from token q0 to just before q.
FoldSpanMutant(p, q0, q) == TokSpan(q0, q)
FoldSpan(p, q0, q) == TokSpan(p, q)

\* The fold of member (expr.rs 192-208): the postfix operators from q on are
\* applied, in turn, to the expression acc that started at token p.
MemberFold(t, p, acc, q, errs) ==
    IF Tok(t, q) = "." /\ Tok(t, q + 1) \in ExtendedIdentToks THEN
        MemberFold(t, p, Spanned(MemberExpr(acc, Tok(t, q + 1)), FoldSpan(p, q, q + 2)),
                   q + 2, errs)
    ELSE Let({ArrayAccess(t, q)}, LAMBDA index :
        IF index.ok THEN
            MemberFold(t, p, Spanned(IndexExpr(acc, index.v), FoldSpan(p, q, index.pos)),
                       index.pos, errs \o index.errs)
        ELSE Let({Call(t, q)}, LAMBDA call :
            IF call.ok THEN
                MemberFold(t, p,
                           Spanned(CallExpr(acc, call.v.type_args, call.v.args),
                                   FoldSpan(p, q, call.pos)),
                           call.pos, errs \o call.errs)
            ELSE POk(acc, q, errs)))

\* member (expr.rs 192-218)
Member(t, p) ==
    Let({Atom(t, p)}, LAMBDA a :
        Let({IF a.ok THEN MemberFold(t, p, a.v, a.pos, a.errs) ELSE PFail},
            LAMBDA folded : RecoverWith(folded, t, p, "[", "expr")))

\* unops (expr.rs 220-226)
Unops(t, p) ==
    IF Tok(t, p) \in UnopToks THEN
        Let({Unops(t, p + 1)}, LAMBDA r :
            IF r.ok
            THEN POk(Spanned(UnOpExpr(UnOpOf(Tok(t, p)), r.v), TokSpan(p, r.pos)),
                     r.pos, r.errs)
            ELSE PFail)
    ELSE Member(t, p)

\* as_ (expr.rs 228-237)
AsCasts(t, p, acc, q, errs) ==
    IF Tok(t, q) # "as" THEN POk(acc, q, errs)
    ELSE Let({TypeWithSpan(t, q + 1)}, LAMBDA ty :
        IF ty.ok
        THEN AsCasts(t, p, Spanned(DynCastExpr(acc, ty.v), TokSpan(p, ty.pos)),
                     ty.pos, errs)
        ELSE POk(acc, q, errs))

As(t, p) ==
    Let({Unops(t, p)}, LAMBDA u :
        IF u.ok THEN AsCasts(t, p, u.v, u.pos, u.errs) ELSE PFail)

\* binop.then(as_).repeated().collect() (expr.rs 241)
BinopPairs(t, q, pairs, errs) ==
    IF Tok(t, q) \notin BinopToks THEN [pairs |-> pairs, pos |-> q, errs |-> errs]
    ELSE Let({As(t, q + 1)}, LAMBDA r :
        IF r.ok
        THEN BinopPairs(t, r.pos,
                        Append(pairs, [op |-> BinOpOf(Tok(t, q)), rhs |-> r.v]),
                        errs \o r.errs)
        ELSE [pairs |-> pairs, pos |-> q, errs |-> errs])

\* binops (expr.rs 239-243)
Binops(t, p) ==
    Let({As(t, p)}, LAMBDA lhs :
        IF ~lhs.ok THEN PFail
        ELSE Let({BinopPairs(t, lhs.pos, <<>>, lhs.errs)}, LAMBDA ops :
            POk(ClimbPrec(lhs.v, ops.pairs, 1, 0).e, ops.pos, ops.errs)))

\* The parser of the else-branch (expr.rs 250): the whole expression grammar.
ElseBranchMutant(t, p) == Binops(t, p)
ElseBranch(t, p) == ExprWithSpanRec(t, p)

\* ternary (expr.rs 245-262)
Ternary(t, p) ==
    Let({Binops(t, p)}, LAMBDA cond :
        IF ~cond.ok THEN PFail
        ELSE IF Tok(t, cond.pos) # "?" THEN cond
        ELSE Let({ExprWithSpanRec(t, cond.pos + 1)}, LAMBDA then :
            IF ~then.ok \/ Tok(t, then.pos) # ":" THEN cond
            ELSE Let({ElseBranch(t, then.pos + 1)}, LAMBDA els :
                IF ~els.ok THEN cond
                ELSE POk(Spanned(ConditionalExpr(cond.v, then.v, els.v),
                                 TokSpan(p, els.pos)),
                         els.pos, cond.errs \o then.errs \o els.errs))))

\* assign (expr.rs 264-275)
Assign(t, p) ==
    Let({Ternary(t, p)}, LAMBDA lhs :
        IF ~lhs.ok THEN PFail
        ELSE IF Tok(t, lhs.pos) # "=" THEN lhs
        ELSE Let({Ternary(t, lhs.pos + 1)}, LAMBDA rhs :
            IF ~rhs.ok THEN lhs
            ELSE POk(Spanned(AssignExpr(lhs.v, rhs.v), TokSpan(p, rhs.pos)),
                     rhs.pos, lhs.errs \o rhs.errs)))

\* expr_with_span_impl (expr.rs 28-278)
ExprWithSpanImpl(t, p) == Assign(t, p)

\* Whether the rule for a trailing period applies at q.
TrailingPeriodMutant(t, q) == FALSE
TrailingPeriod(t, q) == Tok(t, q) = "."

\* expr_with_span_rec (expr.rs 13-26)
ExprWithSpanRec(t, p) ==
    Let({ExprWithSpanImpl(t, p)}, LAMBDA r :
        IF ~r.ok THEN PFail
        ELSE IF TrailingPeriod(t, r.pos)
        THEN POk(r.v, r.pos + 1,
                 Append(r.errs, UnexpectedPeriod(TokSpan(p, r.pos + 1))))
        ELSE r)

\* parse_expr: the expression parser run over the whole token stream; the
\* output is None unless the parser succeeds and reaches the end of input.
ParseExpr(t) ==
    Let({ExprWithSpanRec(t, 1)}, LAMBDA r :
        IF r.ok /\ r.pos = Len(t) + 1
        THEN [out |-> Some(r.v), errs |-> r.errs]
        ELSE [out |-> None,
              errs |-> Append(IF r.ok THEN r.errs ELSE <<>>,
                              SyntaxError(IF r.ok THEN r.pos ELSE 1))])

\* ---- The parse_expr calls of a behaviour -----------------------------------
MaxTokens == 4      \* longest free token stream
MaxPostfix == 5     \* longest chain of postfix operators
MaxCondDepth == 3   \* deepest nesting of conditionals

\* Free token streams.
Alphabet == {"a", "+", ".", "(", ")", "[", "]", "{", "}"}

\* Postfix chains: an atom and the postfix operators that follow it.
PostfixAtoms == {<<"a">>, <<"(", "a", ")">>}
PostfixOps == {<<".", "b">>, <<"[", "1", "]">>, <<"(", ")">>,
               <<"[", "a", ".", "b", "]">>}

\* Conditionals without parentheses: a leaf, or a leaf condition with a
\* then-branch and an else-branch.
RECURSIVE CondTrees(_)
CondTrees(d) ==
    IF d = 0 THEN {[k |-> "leaf"]}
    ELSE LET sub == CondTrees(d - 1) IN
         sub \cup {[k |-> "cond", then |-> x, else_ |-> y] : x \in sub, y \in sub}

RECURSIVE Render(_)
Render(tree) ==
    IF tree.k = "leaf" THEN <<"a">>
    ELSE <<"a", "?">> \o Render(tree.then) \o <<":">> \o Render(tree.else_)

RECURSIVE Flatten(_)
Flatten(seqs) == IF seqs = <<>> THEN <<>> ELSE Head(seqs) \o Flatten(Tail(seqs))

NoParse == [op |-> "none", arg |-> <<>>, toks |-> <<>>,
            res |-> [out |-> None, errs |-> <<>>]]

ParseExprCall(op, arg, toks) ==
    /\ parse' = [op |-> op, arg |-> arg, toks |-> toks, res |-> ParseExpr(toks)]
    /\ UNCHANGED <<climb, findAt, opName, lowerVars, build, panicked, filesVars, localsVars,
                   captureVars,
                   resolveVars>>

\* parse_expr on a free token stream, the previous one with one more token.
ParseTokens(x) ==
    /\ parse.op \in {"none", "tokens"}
    /\ Len(parse.toks) < MaxTokens
    /\ ParseExprCall("tokens", <<>>, Append(parse.toks, x))

\* parse_expr on a postfix chain, the previous one with one more operator.
ParsePostfix(atom, post) ==
    /\ parse.op \in {"none", "postfix"}
    /\ Len(parse.arg) <= MaxPostfix
    /\ parse.op = "postfix" => atom = parse.arg[1]
    /\ LET arg == IF parse.op = "none" THEN <<atom, post>> ELSE Append(parse.arg, post) IN
       ParseExprCall("postfix", arg, Flatten(arg))

\* parse_expr on a conditional.
ParseTernary(tree) ==
    /\ parse.op = "none"
    /\ ParseExprCall("ternary", tree, Render(tree))

InitParse ==
    /\ build = "debug"
    /\ panicked = FALSE
    /\ climb = <<>>
    /\ parse = NoParse
    /\ IdleAst
    /\ IdleFiles /\ IdleLocals /\ IdleCapture /\ IdleResolve /\ IdleLower

NextParse ==
    \/ \E x \in Alphabet : ParseTokens(x)
    \/ \E atom \in PostfixAtoms, post \in PostfixOps : ParsePostfix(atom, post)
    \/ \E tree \in CondTrees(MaxCondDepth) : ParseTernary(tree)

SpecParse == InitParse /\ [][NextParse]_vars

\* ========================================================================
\* Error (lower/error.rs)
\* ========================================================================
\* The variants of Error whose only field is the span, and those that carry
\* a payload before it.
SpanOnlyKinds ==
    {"InsufficientTypeInformation", "InvalidNewType", "InvalidDynCastType",
     "UnknownStaticCastType", "ClassConstructorHasArguments", "UnsupportedArity",
     "UnsupportedStaticArraySize", "InvalidCaseLabel", "CyclicType",
     "NonExistentSuperType", "InvalidPlaceExpr", "InvalidTemporary",
     "UnexpectedNonConstant", "DeprecatedNameOf", "MissingBreakInCaseLet"}
PayloadKinds ==
    {"Type", "UnresolvedVar", "UnresolvedType", "UnresolvedMember",
     "MultipleMatchingOverloads", "UnresolvedFunction", "InvalidArgCount",
     "InvalidTypeArgCount", "LiteralOutOfRange", "WrongStringLiteral",
     "InstantiatingAbstract", "NonSealedStructConstruction"}
ErrorKinds == SpanOnlyKinds \cup PayloadKinds

\* Error::span
ErrorSpan(e) == e.span

\* Error::code
CodeMutant(e) == e.kind
Code(e) ==
    CASE e.kind = "Type" -> "TYPE_ERR"
      [] e.kind = "UnresolvedVar" -> "UNRESOLVED_REF"
      [] e.kind = "UnresolvedType" -> "UNRESOLVED_TYPE"
      [] e.kind = "UnresolvedMember" -> "UNRESOLVED_MEMBER"
      [] e.kind = "MultipleMatchingOverloads" -> "MULTIPLE_MATCHING_OVERLOADS"
      [] e.kind = "UnresolvedFunction" -> "UNRESOLVED_FN"
      [] e.kind = "InvalidArgCount" -> "INVALID_ARG_COUNT"
      [] e.kind = "InsufficientTypeInformation" -> "CANNOT_LOOKUP_MEMBER"
      [] e.kind \in {"InvalidNewType", "ClassConstructorHasArguments",
                     "InstantiatingAbstract"} -> "INVALID_NEW_USE"
      [] e.kind = "InvalidDynCastType" -> "INVALID_DYN_CAST"
      [] e.kind = "UnknownStaticCastType" -> "INVALID_STATIC_CAST"
      [] e.kind = "InvalidTypeArgCount" -> "INVALID_TYPE_ARG_COUNT"
      [] e.kind = "UnsupportedArity" -> "UNSUPPORTED_ARITY"
      [] e.kind = "UnsupportedStaticArraySize" -> "UNSUPPORTED_ARRAY_SIZE"
      [] e.kind = "InvalidCaseLabel" -> "INVALID_CASE_LABEL"
      [] e.kind = "CyclicType" -> "CYCLIC_TYPE"
      [] e.kind = "LiteralOutOfRange" -> "LIT_OUT_OF_RANGE"
      [] e.kind = "WrongStringLiteral" -> "WRONG_STRING_LIT"
      [] e.kind = "NonExistentSuperType" -> "INVALID_BASE"
      [] e.kind = "InvalidPlaceExpr" -> "INVALID_PLACE"
      [] e.kind = "InvalidTemporary" -> "INVALID_TEMP"
      [] e.kind = "UnexpectedNonConstant" -> "INVALID_CONSTANT"
      [] e.kind = "DeprecatedNameOf" -> "DEPRECATED_SYNTAX"
      [] e.kind = "NonSealedStructConstruction" -> "NON_SEALED_CTR"
      [] e.kind = "MissingBreakInCaseLet" -> "MISSING_BREAK"

\* Error::is_fatal
IsFatalMutant(e) == TRUE
IsFatal(e) == e.kind # "DeprecatedNameOf"

\* The errors the calls are made on: every variant, with two payloads where
\* it has one, at two spans.
Errors ==
    {Error(kind, name, span) :
        kind \in SpanOnlyKinds, name \in {""}, span \in {Span(0, 1), Span(3, 7)}}
    \cup {Error(kind, name, span) :
        kind \in PayloadKinds, name \in {"p", "q"}, span \in {Span(0, 1), Span(3, 7)}}

NoErrCall == [op |-> "none", prev |-> None]

IsFatalCall(e) ==
    /\ errCall' = [op |-> "is_fatal", err |-> e, out |-> IsFatal(e), prev |-> None]
    /\ UNCHANGED <<syntaxVars, funcs, query, subject, layers, born, put, scopeCall,
                   build, panicked, filesVars, localsVars, captureVars, resolveVars>>

CodeCall(e) ==
    /\ errCall' = [op |-> "code", err |-> e, out |-> Code(e),
                   prev |-> IF errCall.op = "code"
                            THEN Some([err |-> errCall.err, out |-> errCall.out])
                            ELSE None]
    /\ UNCHANGED <<syntaxVars, funcs, query, subject, layers, born, put, scopeCall,
                   build, panicked, filesVars, localsVars, captureVars, resolveVars>>

SpanCall(e) ==
    /\ errCall' = [op |-> "span", err |-> e, out |-> ErrorSpan(e), prev |-> None]
    /\ UNCHANGED <<syntaxVars, funcs, query, subject, layers, born, put, scopeCall,
                   build, panicked, filesVars, localsVars, captureVars, resolveVars>>

InitErrors ==
    /\ build = "debug"
    /\ panicked = FALSE
    /\ errCall = NoErrCall
    /\ IdleFiles /\ IdleLocals /\ IdleCapture /\ IdleResolve /\ IdleSyntax
    /\ IdleQuery /\ IdleScopes

NextErrors ==
    \/ \E e \in Errors : IsFatalCall(e)
    \/ \E e \in Errors : CodeCall(e)
    \/ \E e \in Errors : SpanCall(e)

SpecErrors == InitErrors /\ [][NextErrors]_vars

\* ========================================================================
\* Env::query_free_functions (lower/env.rs)
\* ========================================================================
MaxScopes == 3      \* deepest stack of scopes

FnNames == {"f", "g"}

\* The symbol table: the free function behind each index.
Symbols == [idx \in 0 .. 2 |-> [body |-> idx]]

\* ScopedMap::scope_iter: the scopes, innermost first.
ScopeIter(fs) == [i \in 1 .. Len(fs) |-> fs[Len(fs) + 1 - i]]

\* .filter_map(|map| map.get(name)) (env.rs 57)
FilterMapGetMutant(maps, name) ==
    LET with == {i \in DOMAIN maps : name \in DOMAIN maps[i]} IN
    IF with = {} THEN <<>>
    ELSE <<maps[CHOOSE i \in with : \A j \in with : i <= j][name]>>
RECURSIVE FilterMapGet(_, _)
FilterMapGet(maps, name) ==
    IF maps = <<>> THEN <<>>
    ELSE (IF name \in DOMAIN Head(maps) THEN <<Head(maps)[name]>> ELSE <<>>)
         \o FilterMapGet(Tail(maps), name)

FunctionEntry(idx, name, func) == [idx |-> idx, name |-> name, func |-> func]

\* Env::query_free_functions, the iterator drained into a sequence.
QueryFreeFunctions(fs, name, symbols) ==
    LET idxs == Flatten(FilterMapGet(ScopeIter(fs), name)) IN
    [i \in 1 .. Len(idxs) |-> FunctionEntry(idxs[i], name, symbols[idxs[i]])]

\* The scopes a map of free functions may have: each scope gives some of the
\* names a list of indices.
FnScopes ==
    UNION {[names -> {<<0>>, <<1, 2>>}] : names \in SUBSET FnNames}

NoQuery == [op |-> "none", prev |-> None]

\* The map of free functions gets one more scope (while it is built, before
\* any Env refers to it).
GlobalsScope(scope) ==
    /\ query.op = "none"
    /\ Len(funcs) < MaxScopes
    /\ funcs' = Append(funcs, scope)
    /\ UNCHANGED <<syntaxVars, errCall, query, subject, layers, born, put, scopeCall,
                   build, panicked, filesVars, localsVars, captureVars, resolveVars>>

QueryFreeFunctionsCall(name) ==
    /\ funcs # <<>>
    /\ query' = [op |-> "query", name |-> name, before |-> funcs,
                 out |-> QueryFreeFunctions(funcs, name, Symbols),
                 prev |-> IF query.op = "query"
                          THEN Some([name |-> query.name, out |-> query.out])
                          ELSE None]
    /\ UNCHANGED <<syntaxVars, errCall, funcs, subject, layers, born, put, scopeCall,
                   build, panicked, filesVars, localsVars, captureVars, resolveVars>>

InitQuery ==
    /\ build = "debug"
    /\ panicked = FALSE
    /\ funcs = <<>>
    /\ query = NoQuery
    /\ IdleFiles /\ IdleLocals /\ IdleCapture /\ IdleResolve /\ IdleSyntax
    /\ IdleErrors /\ IdleScopes

NextQuery ==
    \/ \E scope \in FnScopes : GlobalsScope(scope)
    \/ \E name \in FnNames : QueryFreeFunctionsCall(name)

SpecQuery == InitQuery /\ [][NextQuery]_vars

\* ========================================================================
\* The scopes of Env and TypeEnv (lower/env.rs)
\* ========================================================================
ScopeNames == {"x", "ref"}

\* What an environment binds a name to: a TypeRef in a TypeEnv, a LocalInfo in
\* the locals of an Env.
BindingsOf(s) ==
    IF s = "TypeEnv" THEN {NameRef(INT32), NameRef(WREF)}
    ELSE {LocalInfo(Var(0), "Int32", None), LocalInfo(Var(1), "Bool", None)}

\* TypeEnv::pop_scope: the environment is consumed, its topmost scope is
\* the answer.
TypeEnvPopScope(env) == env[Len(env)]

\* TypeEnv::push_scope: a child whose topmost scope is the given one.
TypeEnvPushScope(env, scope) == Append(env, scope)

\* The scopes a push_scope call is given.
PushedScopes == {"x" :> NameRef(INT32), "ref" :> NameRef(WREF)}

\* The outermost environment: TypeEnv::with_default_types, or the empty
\* locals of Env::new.
RootOf(s) == IF s = "TypeEnv" THEN WithDefaultTypes ELSE <<EmptyScope>>

\* Env::introduce_scope, on the locals (types and funcs are shared as they
\* are).
EnvIntroduceScope(locals) == Append(locals, EmptyScope)

\* Env::define_local
DefineLocal(locals, name, info) ==
    [locals |-> [locals EXCEPT ![Len(locals)] = (name :> info) @@ @], id |-> info.id]

\* What the environment of depth d answers to each lookup.
Lookups(env, d) == [n \in ScopeNames |-> ScopedGetFrom(env, n, d)]

\* m with name bound to v.
Bound(m, name, v) == [n \in DOMAIN m \cup {name} |-> IF n = name THEN v ELSE m[n]]

NoScopeCall == [op |-> "none"]

TypeEnvIntroduceScopeCall ==
    /\ subject = "TypeEnv"
    /\ Len(layers) < MaxScopes
    /\ layers' = TypeEnvIntroduceScope(layers)
    /\ born' = Append(born, Lookups(layers, Len(layers)))
    /\ put' = Append(put, EmptyScope)
    /\ scopeCall' = [op |-> "introduce_scope"]
    /\ UNCHANGED <<syntaxVars, errCall, funcs, query, subject,
                   build, panicked, filesVars, localsVars, captureVars, resolveVars>>

TypeEnvAddCall(name, ref) ==
    /\ subject = "TypeEnv"
    /\ layers' = TypeEnvAdd(layers, name, ref)
    /\ put' = [put EXCEPT ![Len(put)] = Bound(@, name, ref)]
    /\ scopeCall' = [op |-> "add", name |-> name, v |-> ref]
    /\ UNCHANGED <<syntaxVars, errCall, funcs, query, subject, born,
                   build, panicked, filesVars, localsVars, captureVars, resolveVars>>

TypeEnvPushScopeCall(scope) ==
    /\ subject = "TypeEnv"
    /\ Len(layers) < MaxScopes
    /\ layers' = TypeEnvPushScope(layers, scope)
    /\ born' = Append(born, Lookups(layers, Len(layers)))
    /\ put' = Append(put, scope)
    /\ scopeCall' = [op |-> "push_scope"]
    /\ UNCHANGED <<syntaxVars, errCall, funcs, query, subject,
                   build, panicked, filesVars, localsVars, captureVars, resolveVars>>

TypeEnvGetCall(name) ==
    /\ subject = "TypeEnv"
    /\ scopeCall' = [op |-> "get", name |-> name, out |-> TypeEnvGet(layers, name)]
    /\ UNCHANGED <<syntaxVars, errCall, funcs, query, subject, layers, born, put,
                   build, panicked, filesVars, localsVars, captureVars, resolveVars>>

\* pop_scope on a child; its parent is the environment on top again.
TypeEnvPopScopeCall ==
    /\ subject = "TypeEnv"
    /\ Len(layers) > 1
    /\ layers' = SubSeq(layers, 1, Len(layers) - 1)
    /\ born' = SubSeq(born, 1, Len(born) - 1)
    /\ put' = SubSeq(put, 1, Len(put) - 1)
    /\ scopeCall' = [op |-> "pop_scope", out |-> TypeEnvPopScope(layers),
                     put |-> put[Len(put)]]
    /\ UNCHANGED <<syntaxVars, errCall, funcs, query, subject,
                   build, panicked, filesVars, localsVars, captureVars, resolveVars>>

EnvIntroduceScopeCall ==
    /\ subject = "Env"
    /\ Len(layers) < MaxScopes
    /\ layers' = EnvIntroduceScope(layers)
    /\ born' = Append(born, Lookups(layers, Len(layers)))
    /\ put' = Append(put, EmptyScope)
    /\ scopeCall' = [op |-> "introduce_scope"]
    /\ UNCHANGED <<syntaxVars, errCall, funcs, query, subject,
                   build, panicked, filesVars, localsVars, captureVars, resolveVars>>

DefineLocalCall(name, info) ==
    /\ subject = "Env"
    /\ \E r \in {DefineLocal(layers, name, info)} :
          /\ layers' = r.locals
          /\ scopeCall' = [op |-> "define_local", name |-> name, v |-> info,
                           out |-> r.id]
    /\ put' = [put EXCEPT ![Len(put)] = Bound(@, name, info)]
    /\ UNCHANGED <<syntaxVars, errCall, funcs, query, subject, born,
                   build, panicked, filesVars, localsVars, captureVars, resolveVars>>

InitScopes ==
    /\ build = "debug"
    /\ panicked = FALSE
    /\ subject \in {"TypeEnv", "Env"}
    /\ layers = RootOf(subject)
    /\ born = <<[n \in ScopeNames |-> None]>>
    /\ put = <<EmptyScope>>
    /\ scopeCall = NoScopeCall
    /\ IdleFiles /\ IdleLocals /\ IdleCapture /\ IdleResolve /\ IdleSyntax
    /\ IdleErrors /\ IdleQuery

NextScopes ==
    \/ TypeEnvIntroduceScopeCall
    \/ \E name \in ScopeNames, ref \in BindingsOf("TypeEnv") : TypeEnvAddCall(name, ref)
    \/ TypeEnvPopScopeCall
    \/ \E scope \in PushedScopes : TypeEnvPushScopeCall(scope)
    \/ \E name \in DOMAIN WithDefaultTypes[1] \cup ScopeNames : TypeEnvGetCall(name)
    \/ EnvIntroduceScopeCall
    \/ \E name \in ScopeNames, info \in BindingsOf("Env") : DefineLocalCall(name, info)

SpecScopes == InitScopes /\ [][NextScopes]_vars

\* ========================================================================
\* Properties
\* ========================================================================

\* ---- SourceMap -----------------------------------------------------------
\* Number of pushes on end `e` among the first i completed pushes.
RECURSIVE PushCount(_, _)
PushCount(e, i) ==
    IF i = 0 THEN 0
    ELSE PushCount(e, i - 1) + (IF pushes[i].end = e THEN 1 ELSE 0)

\* The ids returned by the first n pushes.
ReturnedIds(n) == {pushes[i].id : i \in 1 .. n}

\* C1: the k-th push_front returns FileId -k and the k-th push_back returns
\* FileId k-1; so push_front ids are negative, push_back ids are
\* non-negative, and no two pushes return the same id.
C1_PushIds ==
    /\ \A i \in 1 .. Len(pushes) :
         /\ pushes[i].end = "front" =>
               pushes[i].id = -PushCount("front", i) /\ pushes[i].id < 0
         /\ pushes[i].end = "back" =>
               pushes[i].id = PushCount("back", i) - 1 /\ pushes[i].id >= 0
    /\ \A i, j \in 1 .. Len(pushes) : i # j => pushes[i].id # pushes[j].id

\* Two pushes on the front and one on the back have returned.
C1_Witness ==
    /\ Len(pushes) = 3
    /\ PushCount("front", 3) = 2
    /\ PushCount("back", 3) = 1

\* The file get(id) must answer for the i-th push.
PushedFile(i) == FileNew(pushes[i].path, pushes[i].source)

\* C2 (as claimed): after any pushes, get(id) of every id an earlier push
\* returned is the file passed to that push, whatever was pushed since;
\* get of an id no push returned is None; len() is the number of pushes.
C2_GetStable ==
    /\ \A i \in 1 .. Len(pushes) :
         DequeGet(front, back, pushes[i].id, build) =
             [panic |-> FALSE, file |-> Some(PushedFile(i))]
    /\ lastGet.op = "get" =>
         /\ ~lastGet.panic
         /\ lastGet.id \notin ReturnedIds(lastGet.at) => lastGet.file = None
         /\ \A i \in 1 .. lastGet.at :
              lastGet.id = pushes[i].id => lastGet.file = Some(PushedFile(i))
    /\ lastGet.op = "len" => lastGet.n = lastGet.at
    /\ DequeLen(front, back) = Len(pushes)

\* What does hold of get: the claim of C2 for every id except i32::MIN
\* under overflow checks.
C2_GetStableButMin ==
    /\ \A i \in 1 .. Len(pushes) :
         DequeGet(front, back, pushes[i].id, build) =
             [panic |-> FALSE, file |-> Some(PushedFile(i))]
    /\ (lastGet.op = "get" /\ ~(lastGet.id = I32_MIN /\ build = "debug")) =>
         /\ ~lastGet.panic
         /\ lastGet.id \notin ReturnedIds(lastGet.at) => lastGet.file = None
         /\ \A i \in 1 .. lastGet.at :
              lastGet.id = pushes[i].id => lastGet.file = Some(PushedFile(i))
    /\ lastGet.op = "len" => lastGet.n = lastGet.at
    /\ DequeLen(front, back) = Len(pushes)

\* ---- Locals --------------------------------------------------------------
\* Every entry of every table, as <<table, position>>.
Entries == {<<t, i>> : t \in 1 .. Len(tables), i \in 1 .. MaxAdds + 1} \cap
           {e \in (1 .. Len(tables)) \X (1 .. MaxAdds + 1) :
                e[2] <= Len(tables[e[1]].locals)}

EntryNum(e) == tables[e[1]].locals[e[2]].id.n

\* C3 (as claimed): across all tables sharing the counter no two entries
\* carry the same number, and after n adds the numbers issued are exactly
\* c0 .. c0+n-1.
C3_UniqueContiguous ==
    /\ \A e, f \in Entries : e # f => EntryNum(e) # EntryNum(f)
    /\ {EntryNum(e) : e \in Entries} = c0 .. (c0 + Cardinality(Entries) - 1)

\* What does hold: the claim of C3 while the counter has not passed 65535.
C3_UniqueContiguousBelowMax ==
    (c0 + Cardinality(Entries) - 1 <= U16_MAX) =>
        /\ \A e, f \in Entries : e # f => EntryNum(e) # EntryNum(f)
        /\ {EntryNum(e) : e \in Entries} = c0 .. (c0 + Cardinality(Entries) - 1)

\* The effect C4 claims of one step: an add call appends exactly one entry,
\* Var(c) or Param(c) for the counter value c at the call, to its table and
\* leaves the counter at c+1, nothing else changing; Locals::new adds an
\* empty table and leaves the counter alone.
C4_StepEffect ==
    /\ lastAdd'.n = lastAdd.n + 1 =>
         LET t == lastAdd'.tab
             old == tables[t].locals
             new == tables'[t].locals IN
         /\ Len(tables') = Len(tables)
         /\ Len(new) = Len(old) + 1
         /\ SubSeq(new, 1, Len(old)) = old
         /\ new[Len(new)].id =
                (IF lastAdd'.op = "add_var" THEN Var(counter) ELSE Param(counter))
         /\ counter' = counter + 1
         /\ tables'[t].depth = tables[t].depth
         /\ \A u \in 1 .. Len(tables) : u # t => tables'[u] = tables[u]
    /\ Len(tables') = Len(tables) + 1 =>
         /\ tables'[Len(tables')].locals = <<>>
         /\ counter' = counter
         /\ SubSeq(tables', 1, Len(tables)) = tables

\* C4 (as claimed), for every step.
C4_AddFrame == [][C4_StepEffect]_vars

\* What does hold: the effect of C4 for every call made below 65535.
C4_AddFrameBelowMax == [][counter < U16_MAX => C4_StepEffect]_vars

\* ---- Capture -------------------------------------------------------------
\* C5: k applications of pop_scope to a capture of depth d give None iff
\* k > d and otherwise the same local at depth d-k; the receiver of a call
\* is not modified by it.
C5_PopScopeK ==
    /\ capCur.some <=> capK <= cap0.depth
    /\ capCur.some => capCur.v = Capture(cap0.captured, cap0.depth - capK)
    /\ (capK >= 1 /\ capSelf.some) =>
           capSelf.v = Capture(cap0.captured, cap0.depth - (capK - 1))

\* A capture of depth 2 has been popped three times and is gone; the
\* receiver of the last call was its depth-0 form.
C5_Witness ==
    /\ cap0.depth = 2
    /\ capK = 3
    /\ capCur = None
    /\ capSelf = Some(Capture(cap0.captured, 0))

\* ---- resolve ---------------------------------------------------------------
\* The store the last call started from.
PreStore == Store(last.pre.cells, last.pre.nextRc)

\* resolve(typ, span) by the environment and from the store of the last call.
ResolveAgain(typ, span) ==
    Resolve(EnvOf(last.env), PreStore, typ, span, MaxForceDepth)

RefIsRef(env) == TypeEnvGet(env, "ref") = Some(NameRef(REF))

IsRefOf(typ) == typ.k = "Named" /\ typ.name = "ref" /\ Len(typ.args) = 1

\* C6: where `ref` is bound to Name(REF), resolve(ref<T>) returns exactly what
\* resolve(T) returns, the same type (not wrapped in an application of REF)
\* or the same error, and leaves the cells as resolve(T) does; ref<ref<T>>
\* collapses to resolve(T) as well.
C6_RefSugar ==
    (last.op = "apply" /\ IsRefOf(last.typ) /\ RefIsRef(EnvOf(last.env))) =>
        LET arg == last.typ.args[1]
            direct == ResolveAgain(arg, ChildSpan(CallSpan, 1)) IN
        /\ last.val = direct.val
        /\ cells = direct.st.cells
        /\ last.val.ok => last.val.v # App(REF, <<direct.val.v>>)
        /\ IsRefOf(arg) =>
              last.val = ResolveAgain(arg.args[1],
                             ChildSpan(ChildSpan(CallSpan, 1), 1)).val

\* ref<ref<Int32>> has been resolved to Int32 itself.
C6_Witness ==
    /\ last.op = "apply"
    /\ last.env = "lazy"
    /\ last.typ = Named("ref", <<Named("ref", <<Plain("Int32")>>)>>)
    /\ last.val = Ok(App(INT32, <<>>))

\* The error kind, if any, with which forcing cell c fails from store st.
ForceFailure(env, st, c) ==
    LET v == LazyArm(LazyGet(env, st, c, MaxForceDepth), 0) IN
    IF v.ok THEN {} ELSE {v.err.kind}

\* The error kinds of the conditions a type expression violates.  With
\* `everywhere` every position of the expression counts; without it only
\* the positions resolve visits count: the arguments of a name bound to a
\* Var or a LazyVar, and of an unbound name, are not looked at.
RECURSIVE Violations(_, _, _, _)
Violations(env, st, typ, everywhere) ==
    LET inArgs == UNION {Violations(env, st, typ.args[i], everywhere) :
                            i \in 1 .. Len(typ.args)} IN
    IF typ.k = "Named" THEN
        LET ref == TypeEnvGet(env, typ.name) IN
        IF ~ref.some THEN {"UnresolvedType"} \cup (IF everywhere THEN inArgs ELSE {})
        ELSE IF ref.v.k = "Name" THEN inArgs
        ELSE IF ref.v.k = "Var" THEN (IF everywhere THEN inArgs ELSE {})
        ELSE ForceFailure(env, st, ref.v.cell)
                 \cup (IF everywhere THEN inArgs ELSE {})
    ELSE IF typ.k = "Array" THEN inArgs
    ELSE IF typ.k = "StaticArray" THEN
        inArgs \cup (IF typ.size > MAX_STATIC_ARRAY_SIZE
                     THEN {"UnsupportedStaticArraySize"} ELSE {})
    ELSE inArgs \cup (IF Len(typ.args) - 1 > MAX_FN_ARITY
                      THEN {"UnsupportedArity"} ELSE {})

\* C7 (as claimed): resolve returns Ok for a type expression that violates
\* none of the conditions (bound names, static-array sizes and function
\* arities within the limits, lazy variables that force), and for one that
\* violates a condition anywhere it returns an error of a violated kind.
C7_Totality ==
    last.op = "apply" =>
        LET v == Violations(EnvOf(last.env), PreStore, last.typ, TRUE) IN
        /\ v = {} => last.val.ok
        /\ v # {} => ~last.val.ok /\ last.val.err.kind \in v

\* C7 (amended): the same, counting only the positions resolve visits.
C7_TotalityVisited ==
    last.op = "apply" =>
        LET v == Violations(EnvOf(last.env), PreStore, last.typ, FALSE) IN
        /\ v = {} <=> last.val.ok
        /\ ~last.val.ok => last.val.err.kind \in v

\* W<X>, with W bound to a Var and X unbound, has resolved to the variable;
\* before that an oversized static array of a bound element type would be
\* refused.
C7_Witness ==
    /\ last.op = "apply"
    /\ last.env = "lazy"
    /\ last.typ = Named("W", <<Plain("X")>>)
    /\ last.val = Ok(Ctx(VarW))
    /\ ~ResolveAgain(StaticArrayT(Plain("Int32"), MAX_STATIC_ARRAY_SIZE + 1),
                     CallSpan).val.ok

\* The cells the bound of cell c refers to in env, at positions resolve
\* visits.
RECURSIVE VisitedCells(_, _)
VisitedCells(env, typ) ==
    LET inArgs == UNION {VisitedCells(env, typ.args[i]) : i \in 1 .. Len(typ.args)} IN
    IF typ.k = "Named" THEN
        LET ref == TypeEnvGet(env, typ.name) IN
        IF ~ref.some THEN {}
        ELSE IF ref.v.k = "Name" THEN inArgs
        ELSE IF ref.v.k = "Var" THEN {}
        ELSE {ref.v.cell}
    ELSE inArgs

Deps(env, c) ==
    IF params[c].upper.some THEN VisitedCells(env, params[c].upper.v) ELSE {}

\* The cells reached from the set `from` in at most n more steps.
RECURSIVE Reach(_, _, _)
Reach(env, from, n) ==
    IF n = 0 THEN from
    ELSE Reach(env, from \cup UNION {Deps(env, d) : d \in from}, n - 1)

ReachedFrom(env, c) == Reach(env, Deps(env, c), Cardinality(Cells))

\* The bounds lead from c back to c.
OnCycle(env, c) == c \in ReachedFrom(env, c)

\* The cells on a cycle through c.
CycleOf(env, c) == {d \in ReachedFrom(env, c) : c \in ReachedFrom(env, d)}

BindsLazily(env, c) == TypeEnvGet(env, c) = Some(LazyRef(c))

ResolveNow(e, typ) ==
    Resolve(EnvOf(e), Store(cells, nextRc), typ, CallSpan, MaxForceDepth)

\* C8: when the bounds of sibling LazyVars refer to one another in a cycle,
\* resolving a reference to whichever is forced first (no cell of the cycle
\* has been forced) returns CyclicType; and no resolve recurses without
\* bound.
C8_CycleDetected ==
    /\ \A e \in EnvNames, c \in Cells :
         LET r == ResolveNow(e, Plain(c)) IN
         /\ r.val.ok \/ r.val.err.kind # "Diverged"
         /\ (/\ BindsLazily(EnvOf(e), c)
             /\ OnCycle(EnvOf(e), c)
             /\ \A d \in CycleOf(EnvOf(e), c) : cells[d] = Pending) =>
                ~r.val.ok /\ r.val.err.kind = "CyclicType"
    /\ last.val.ok \/ last.val.err.kind # "Diverged"

\* T extends U and U extends T; T was resolved first and CyclicType came back.
C8_Witness ==
    /\ params["T"].upper = Some(Plain("U"))
    /\ params["U"].upper = Some(Plain("T"))
    /\ last.op = "resolve"
    /\ last.env = "lazy"
    /\ last.typ = Plain("T")
    /\ \A c \in Cells : last.pre.cells[c] = Pending
    /\ ~last.val.ok
    /\ last.val.err.kind = "CyclicType"
    /\ last.runs = [c \in Cells |-> 1]

\* C9: once a LazyVar has been forced successfully, every later resolve of a
\* name bound to it, in whatever environment, returns the variable the first
\* successful force produced, the same allocation, without running the
\* thunk again.
C9_Memoised ==
    /\ \A c \in Cells : hist[c].first.some =>
         /\ cells[c] = Done(hist[c].first.v)
         /\ \A e \in EnvNames : BindsLazily(EnvOf(e), c) =>
              LET r == ResolveNow(e, Plain(c)) IN
              /\ r.val = Ok(Ctx(hist[c].first.v))
              /\ r.st.runs[c] = 0
              /\ r.st.cells = cells
              /\ r.st.nextRc = nextRc
    /\ \A c \in Cells :
         (/\ last.op = "resolve"
          /\ last.typ = Plain(c)
          /\ BindsLazily(EnvOf(last.env), c)
          /\ last.pre.cells[c].st = "Done") =>
             /\ last.val = Ok(Ctx(hist[c].first.v))
             /\ last.runs[c] = 0

\* A cell forced in one environment has been resolved again in another one
\* and answered with the variable of the first force.
C9_Witness ==
    \E c \in Cells :
        /\ last.op = "resolve"
        /\ last.typ = Plain(c)
        /\ BindsLazily(EnvOf(last.env), c)
        /\ last.pre.cells[c].st = "Done"
        /\ hist[c].first.some
        /\ hist[c].env # last.env
        /\ last.val = Ok(Ctx(hist[c].first.v))

RECURSIVE TableTree(_, _, _)
TableTree(ops, lo, hi) ==
    IF lo = hi THEN Operand(lo)
    ELSE LET between == (lo + 1) .. hi
             loosest == {j \in between :
                            \A m \in between : Precedence(ops[j]) <= Precedence(ops[m])}
             j == IF \A m \in loosest : Assoc(ops[m]) = "Left"
                  THEN CHOOSE m \in loosest : \A n \in loosest : n <= m
                  ELSE CHOOSE m \in loosest : \A n \in loosest : m <= n
             l == TableTree(ops, lo, j - 1)
             r == TableTree(ops, j, hi) IN
         Spanned(BinOpExpr(l, ops[j], r), SpanUnion(l.span, r.span))

\* C11: climb_prec(lhs, pairs, 0) consumes the whole chain and returns the
\* tree the precedence and associativity table prescribes: tighter operators
\* below looser neighbours, equal precedence nested to the left for ordinary
\* operators and to the right for compound assignments.
C11_ClimbPrec ==
    climb.op = "climb" =>
        /\ climb.out.i = Len(climb.ops) + 1
        /\ climb.out.e = TableTree(climb.ops, 0, Len(climb.ops))

\* x0 + x1 * x2 - x3 / x4 + x5 has come out as (((x0 + (x1*x2)) - (x3/x4)) + x5).
C11_Witness ==
    /\ climb.op = "climb"
    /\ climb.ops = <<"Add", "Mul", "Sub", "Div", "Add">>
    /\ LET e == climb.out.e.e IN
       /\ e.op = "Add" /\ e.rhs.e = Operand(5).e
       /\ e.lhs.e.op = "Sub" /\ e.lhs.e.rhs.e.op = "Div"
       /\ e.lhs.e.lhs.e.op = "Add" /\ e.lhs.e.lhs.e.rhs.e.op = "Mul"
       /\ e.lhs.e.lhs.e.lhs = Operand(0)

\* ---- parse_expr ------------------------------------------------------------
\* The number of tokens Render gives a conditional.
RECURSIVE Width(_)
Width(tree) ==
    IF tree.k = "leaf" THEN 1 ELSE 3 + Width(tree.then) + Width(tree.else_)

\* The expression a conditional stands for when it is written from token p
\* on: the leaf is the identifier a, and a conditional has the leaf as its
\* condition and its two branches as children.
RECURSIVE CondExpr(_, _)
CondExpr(tree, p) ==
    IF tree.k = "leaf" THEN Spanned(IdentExpr("a"), TokSpan(p, p + 1))
    ELSE Spanned(ConditionalExpr(CondExpr([k |-> "leaf"], p),
                                 CondExpr(tree.then, p + 2),
                                 CondExpr(tree.else_, p + 3 + Width(tree.then))),
                 TokSpan(p, p + Width(tree)))

\* C12: a conditional written without parentheses parses, with no
\* diagnostic, to the tree whose then-child and else-child are the
\* conditionals written in the then- and the else-position; its condition is
\* never a conditional.
C12_TernaryNesting ==
    parse.op = "ternary" =>
        /\ parse.res.errs = <<>>
        /\ parse.res.out = Some(CondExpr(parse.arg, 1))
        /\ parse.arg.k = "cond" => parse.res.out.v.e.cond.e.k # "Conditional"

\* a ? a ? a : a : a ? a : a has come out with a conditional as then-child
\* and a conditional as else-child.
C12_Witness ==
    /\ parse.op = "ternary"
    /\ parse.toks = <<"a", "?", "a", "?", "a", ":", "a", ":", "a", "?", "a", ":", "a">>
    /\ parse.res.out.some
    /\ parse.res.out.v.e.k = "Conditional"
    /\ parse.res.out.v.e.cond.e.k = "Ident"
    /\ parse.res.out.v.e.then.e.k = "Conditional"
    /\ parse.res.out.v.e.else_.e.k = "Conditional"

\* The node a postfix operator builds on the receiver recv when the
\* operator's first token is token q.
PostfixNode(recv, post, q) ==
    IF post = <<".", "b">> THEN MemberExpr(recv, "b")
    ELSE IF post = <<"(", ")">> THEN CallExpr(recv, <<>>, <<>>)
    ELSE IF post = <<"[", "1", "]">>
    THEN IndexExpr(recv, Spanned(ConstantExpr("1"), TokSpan(q + 1, q + 2)))
    ELSE IndexExpr(recv,
                   Spanned(MemberExpr(Spanned(IdentExpr("a"), TokSpan(q + 1, q + 2)), "b"),
                           TokSpan(q + 1, q + 4)))

\* The tree of a postfix chain after its first n operators: operator n takes
\* the tree of the first n - 1 as its receiver and spans from the first token
\* of the atom to its own last token.  arg[1] is the atom; a parenthesised
\* atom is the expression between the parentheses.
RECURSIVE PostfixTree(_, _)
PostfixTree(arg, n) ==
    IF n = 0
    THEN Spanned(IdentExpr("a"), IF arg[1] = <<"a">> THEN TokSpan(1, 2) ELSE TokSpan(2, 3))
    ELSE LET q == Len(Flatten(SubSeq(arg, 1, n))) + 1 IN
         Spanned(PostfixNode(PostfixTree(arg, n - 1), arg[n + 1], q),
                 TokSpan(1, q + Len(arg[n + 1])))

\* C13: an atom followed by postfix operators p1 .. pn parses, with no
\* diagnostic, to pn(..p2(p1(atom))..), every node spanning from the start of
\* the atom to the end of its own operator.
C13_PostfixFold ==
    parse.op = "postfix" =>
        /\ parse.res.errs = <<>>
        /\ parse.res.out = Some(PostfixTree(parse.arg, Len(parse.arg) - 1))

\* a[a.b].b()[1].b has come out as Member(Index(Call(Member(Index(a, ..))))).
C13_Witness ==
    /\ parse.op = "postfix"
    /\ parse.toks = <<"a", "[", "a", ".", "b", "]", ".", "b", "(", ")",
                      "[", "1", "]", ".", "b">>
    /\ parse.res.out.some
    /\ LET e == parse.res.out.v IN
       /\ e.e.k = "Member" /\ e.span = TokSpan(1, 16)
       /\ e.e.expr.e.k = "Index" /\ e.e.expr.span = TokSpan(1, 14)
       /\ e.e.expr.e.expr.e.k = "Call" /\ e.e.expr.e.expr.span = TokSpan(1, 11)
       /\ e.e.expr.e.expr.e.expr.e.k = "Member"
       /\ e.e.expr.e.expr.e.expr.e.expr.e.k = "Index"
       /\ e.e.expr.e.expr.e.expr.e.expr.e.expr.e = IdentExpr("a")

\* Whether the brackets of t, from token i on, close the brackets in `open`
\* (innermost first) and are balanced otherwise.
RECURSIVE BalancedFrom(_, _, _)
BalancedFrom(t, i, open) ==
    IF i > Len(t) THEN open = <<>>
    ELSE IF t[i] \in Openers THEN BalancedFrom(t, i + 1, <<CloserOf(t[i])>> \o open)
    ELSE IF t[i] \in Closers
    THEN open # <<>> /\ Head(open) = t[i] /\ BalancedFrom(t, i + 1, Tail(open))
    ELSE BalancedFrom(t, i + 1, open)

Balanced(t) == BalancedFrom(t, 1, <<>>)

\* C14: a token stream whose (), [] and {} are balanced parses to Some(ast).
C14_RecoveryClosure ==
    parse.op # "none" /\ Balanced(parse.toks) => parse.res.out.some

\* The spans of the Error placeholders in an expression.
RECURSIVE Placeholders(_)
PlaceholdersIn(es) == UNION {Placeholders(es[i]) : i \in DOMAIN es}
Placeholders(x) ==
    CASE x.e.k = "Error" -> {x.span}
      [] x.e.k \in {"Ident", "Constant"} -> {}
      [] x.e.k = "BinOp" -> Placeholders(x.e.lhs) \cup Placeholders(x.e.rhs)
      [] x.e.k = "Assign" -> Placeholders(x.e.lhs) \cup Placeholders(x.e.rhs)
      [] x.e.k \in {"Member", "UnOp", "DynCast"} -> Placeholders(x.e.expr)
      [] x.e.k = "Index" -> Placeholders(x.e.expr) \cup Placeholders(x.e.index)
      [] x.e.k = "Call" -> Placeholders(x.e.expr) \cup PlaceholdersIn(x.e.args)
      [] x.e.k = "New" -> PlaceholdersIn(x.e.args)
      [] x.e.k = "ArrayLit" -> PlaceholdersIn(x.e.els)
      [] x.e.k = "Conditional" ->
            Placeholders(x.e.cond) \cup Placeholders(x.e.then) \cup Placeholders(x.e.else_)
      [] x.e.k = "Lambda" ->
            IF x.e.body.k = "Inline" THEN Placeholders(x.e.body.expr)
            ELSE UNION {Placeholders(x.e.body.block.stmts[i].e.expr) :
                           i \in DOMAIN x.e.body.block.stmts}

\* Tokens i .. i + 2 of t are a bracketed region whose content, the single
\* token +, cannot parse; t has no other bracket and parses cleanly once the
\* content is replaced by the identifier a.
FailedRegionAt(t, i) ==
    /\ i + 2 <= Len(t)
    /\ t[i] \in Openers /\ t[i + 1] = "+" /\ t[i + 2] = CloserOf(t[i])
    /\ \A j \in DOMAIN t \ {i, i + 2} : t[j] \notin Openers \cup Closers
    /\ LET good == ParseExpr([t EXCEPT ![i + 1] = "a"]) IN
       good.out.some /\ good.errs = <<>>

\* C15: a bracketed region whose content fails to parse comes out as one
\* Error placeholder spanning the region, with a diagnostic, inside the tree
\* of the expression around it.
C15_RegionReplaced ==
    parse.op = "tokens" =>
        \A i \in DOMAIN parse.toks :
            FailedRegionAt(parse.toks, i) =>
                /\ parse.res.out.some
                /\ parse.res.errs # <<>>
                /\ TokSpan(i, i + 3) \in Placeholders(parse.res.out.v)

\* The same, for a region that stands where an expression may begin.
C15_RegionReplacedAtAtom ==
    parse.op = "tokens" =>
        \A i \in DOMAIN parse.toks :
            /\ FailedRegionAt(parse.toks, i)
            /\ i = 1 \/ parse.toks[i - 1] \in BinopToks \cup UnopToks
            => /\ parse.res.out.some
               /\ parse.res.errs # <<>>
               /\ TokSpan(i, i + 3) \in Placeholders(parse.res.out.v)

\* The periods of t that do not begin a member access.
StrayPeriods(t) ==
    {i \in DOMAIN t : t[i] = "." /\ Tok(t, i + 1) \notin ExtendedIdentToks}

\* The diagnostics of es with message m.
WithMsg(es, m) == {j \in DOMAIN es : es[j].msg = m}

\* C16: a period after an expression that begins no member access is
\* consumed with exactly one "unexpected '.'" diagnostic and the expression
\* comes out as it does without the period; where no such period follows, no
\* such diagnostic is emitted.
C16_TrailingPeriod ==
    parse.op = "tokens" =>
        LET t == parse.toks
            s == SubSeq(t, 1, Len(t) - 1)
            base == ParseExpr(s) IN
        /\ t[Len(t)] = "." /\ s # <<>> /\ s[Len(s)] # "." /\ base.out.some =>
              /\ parse.res.out = base.out
              /\ parse.res.errs = Append(base.errs, UnexpectedPeriod(TokSpan(1, Len(t) + 1)))
        /\ parse.res.out.some /\ WithMsg(parse.res.errs, "syntax error") = {} =>
              Cardinality(WithMsg(parse.res.errs, "unexpected '.'"))
                  = Cardinality(StrayPeriods(t))

\* a + a . has come out as a + a with one diagnostic.
C16_Witness ==
    /\ parse.op = "tokens"
    /\ parse.toks = <<"a", "+", "a", ".">>
    /\ parse.res.out = ParseExpr(<<"a", "+", "a">>).out
    /\ parse.res.out.some
    /\ parse.res.errs = <<UnexpectedPeriod(TokSpan(1, 5))>>

\* ---- Error ------------------------------------------------------------------
\* C17: is_fatal answers false for DeprecatedNameOf and true for every other
\* variant, whatever the payload and the span.
C17_IsFatal ==
    errCall.op = "is_fatal" =>
        (errCall.out = FALSE <=> errCall.err.kind = "DeprecatedNameOf")

\* is_fatal has answered false for a DeprecatedNameOf.
C17_Witness ==
    /\ errCall.op = "is_fatal"
    /\ errCall.err = Error("DeprecatedNameOf", "", Span(3, 7))
    /\ errCall.out = FALSE

\* The codes of the error table.
ErrorTable ==
    [UnresolvedVar |-> "UNRESOLVED_REF", UnresolvedType |-> "UNRESOLVED_TYPE",
     UnresolvedMember |-> "UNRESOLVED_MEMBER", UnresolvedFunction |-> "UNRESOLVED_FN",
     MultipleMatchingOverloads |-> "MULTIPLE_MATCHING_OVERLOADS",
     InvalidArgCount |-> "INVALID_ARG_COUNT",
     InsufficientTypeInformation |-> "CANNOT_LOOKUP_MEMBER",
     InvalidTypeArgCount |-> "INVALID_TYPE_ARG_COUNT",
     UnsupportedArity |-> "UNSUPPORTED_ARITY",
     UnsupportedStaticArraySize |-> "UNSUPPORTED_ARRAY_SIZE",
     CyclicType |-> "CYCLIC_TYPE", LiteralOutOfRange |-> "LIT_OUT_OF_RANGE",
     WrongStringLiteral |-> "WRONG_STRING_LIT",
     InvalidNewType |-> "INVALID_NEW_USE", InstantiatingAbstract |-> "INVALID_NEW_USE",
     ClassConstructorHasArguments |-> "INVALID_NEW_USE",
     InvalidDynCastType |-> "INVALID_DYN_CAST",
     UnknownStaticCastType |-> "INVALID_STATIC_CAST",
     NonExistentSuperType |-> "INVALID_BASE", InvalidPlaceExpr |-> "INVALID_PLACE",
     InvalidTemporary |-> "INVALID_TEMP", UnexpectedNonConstant |-> "INVALID_CONSTANT",
     DeprecatedNameOf |-> "DEPRECATED_SYNTAX",
     NonSealedStructConstruction |-> "NON_SEALED_CTR",
     MissingBreakInCaseLet |-> "MISSING_BREAK"]

NewUseKinds == {"InvalidNewType", "InstantiatingAbstract", "ClassConstructorHasArguments"}

\* C18: code answers the table's code of the variant; two calls on the same
\* variant answer alike whatever the payloads and spans, two calls on
\* different variants answer alike only when both are misuses of `new`; span
\* answers the span the error holds.
C18_CodeAndSpan ==
    /\ errCall.op = "code" =>
        /\ errCall.err.kind \in DOMAIN ErrorTable =>
              errCall.out = ErrorTable[errCall.err.kind]
        /\ errCall.prev.some =>
              LET a == errCall.prev.v.err.kind
                  b == errCall.err.kind IN
              (errCall.prev.v.out = errCall.out) <=>
                  (a = b \/ {a, b} \subseteq NewUseKinds)
    /\ errCall.op = "span" => errCall.out = errCall.err.span

\* code has answered INVALID_NEW_USE for an InstantiatingAbstract and then
\* for an InvalidNewType at another span.
C18_Witness ==
    /\ errCall.op = "code"
    /\ errCall.prev.some
    /\ errCall.prev.v.err = Error("InstantiatingAbstract", "p", Span(0, 1))
    /\ errCall.err = Error("InvalidNewType", "", Span(3, 7))
    /\ errCall.out = "INVALID_NEW_USE"
    /\ errCall.prev.v.out = "INVALID_NEW_USE"

\* ---- Env::query_free_functions ----------------------------------------------
\* The indices registered under name in scopes d, d - 1, .. 1 of fs, in that
\* order.
RECURSIVE IndicesFrom(_, _, _)
IndicesFrom(fs, name, d) ==
    IF d = 0 THEN <<>>
    ELSE (IF name \in DOMAIN fs[d] THEN fs[d][name] ELSE <<>>)
         \o IndicesFrom(fs, name, d - 1)

\* C19: the query yields the indices under name of the innermost scope, then
\* those of each enclosing scope out to the outermost, each with name and its
\* symbol-table entry; a repeated query yields the same sequence, and the
\* query leaves the environment as it was.
C19_QueryOrder ==
    query.op = "query" =>
        LET idxs == IndicesFrom(query.before, query.name, Len(query.before)) IN
        /\ Len(query.out) = Len(idxs)
        /\ \A i \in DOMAIN idxs :
              query.out[i] = [idx |-> idxs[i], name |-> query.name,
                              func |-> Symbols[idxs[i]]]
        /\ query.prev.some /\ query.prev.v.name = query.name =>
              query.prev.v.out = query.out
        /\ funcs = query.before

\* f is registered in the inner scope as <<1, 2>> and in the outer one as
\* <<0>>, g only in the outer one: the query of f has yielded 1, 2, 0, twice.
C19_Witness ==
    /\ query.op = "query"
    /\ query.name = "f"
    /\ funcs = <<[f |-> <<0>>, g |-> <<0>>], [f |-> <<1, 2>>]>>
    /\ [i \in DOMAIN query.out |-> query.out[i].idx] = <<1, 2, 0>>
    /\ query.prev.some
    /\ query.prev.v.name = "f"

\* ---- Scopes of Env and TypeEnv -----------------------------------------------
\* C20: a child starts with an empty topmost layer and sees every binding of
\* its parent; whatever is inserted in a child, each parent still answers
\* every lookup as it did when its child was introduced, and the topmost
\* layer holds exactly what was inserted into it (on top of what the
\* outermost environment started with); pop_scope answers exactly
\* the bindings inserted in the child; define_local answers the id of the
\* LocalInfo it inserted.
C20_ScopeFrames ==
    subject # "" =>
        /\ scopeCall.op = "introduce_scope" =>
              /\ layers[Len(layers)] = EmptyScope
              /\ Lookups(layers, Len(layers)) = Lookups(layers, Len(layers) - 1)
        /\ \A d \in 2 .. Len(layers) : Lookups(layers, d - 1) = born[d]
        /\ layers[Len(layers)] =
              IF Len(layers) = 1 THEN put[1] @@ RootOf(subject)[1] ELSE put[Len(put)]
        /\ scopeCall.op \in {"add", "define_local"} =>
              ScopedGetFrom(layers, scopeCall.name, Len(layers)) = Some(scopeCall.v)
        /\ scopeCall.op = "pop_scope" => scopeCall.out = scopeCall.put
        /\ scopeCall.op = "define_local" => scopeCall.out = scopeCall.v.id

\* In a TypeEnv whose root binds x, a child has rebound x: the root still
\* answers the old binding.
C20_Witness ==
    /\ subject = "TypeEnv"
    /\ Len(layers) = 2
    /\ scopeCall.op = "add"
    /\ scopeCall.name = "x"
    /\ ScopedGetFrom(layers, "x", 1) = Some(NameRef(INT32))
    /\ ScopedGetFrom(layers, "x", 2) = Some(NameRef(WREF))
    /\ born[2]["x"] = Some(NameRef(INT32))

\* The innermost layer of env that binds name, 0 when there is none.
InnermostWith(env, name) ==
    LET with == {d \in DOMAIN env : name \in DOMAIN env[d]} IN
    IF with = {} THEN 0 ELSE CHOOSE d \in with : \A e \in with : e <= d

\* C21: TypeEnv::get answers the binding of the innermost scope that has the
\* name (an inner binding shadows the outer ones, an outer binding is seen
\* through scopes without one), add binds the name in the topmost scope, and
\* array, ref, wref and script_ref answer ARRAY, REF, WREF and SCRIPT_REF in
\* every environment derived from with_default_types in which no add and no
\* pushed scope has rebound them.
C21_InsideOut ==
    subject = "TypeEnv" =>
        /\ scopeCall.op = "get" =>
              LET d == InnermostWith(layers, scopeCall.name) IN
              /\ scopeCall.out = IF d = 0 THEN None ELSE Some(layers[d][scopeCall.name])
              /\ (\A e \in DOMAIN put : scopeCall.name \notin DOMAIN put[e]) =>
                    scopeCall.out =
                        CASE scopeCall.name = "array" -> Some(NameRef(ARRAY))
                          [] scopeCall.name = "ref" -> Some(NameRef(REF))
                          [] scopeCall.name = "wref" -> Some(NameRef(WREF))
                          [] scopeCall.name = "script_ref" -> Some(NameRef(SCRIPT_REF))
                          [] OTHER -> None
        /\ scopeCall.op = "add" =>
              /\ scopeCall.name \in DOMAIN layers[Len(layers)]
              /\ layers[Len(layers)][scopeCall.name] = scopeCall.v

\* Under a root with the default types, a scope that rebinds ref and a scope
\* above it that binds x: get(ref) has answered the rebinding, seen through
\* the topmost scope.
C21_Witness ==
    /\ subject = "TypeEnv"
    /\ Len(layers) = 3
    /\ "ref" \in DOMAIN layers[2] /\ "ref" \notin DOMAIN layers[3]
    /\ "x" \in DOMAIN layers[3]
    /\ scopeCall.op = "get"
    /\ scopeCall.name = "ref"
    /\ scopeCall.out = Some(layers[2]["ref"])
    /\ scopeCall.out # Some(NameRef(REF))

\* ------------------------------------------------------------------------
\* Position queries: Module::find_at (ast.rs)
\* ------------------------------------------------------------------------
\* An absent Option is the empty sequence, a present one a sequence of one.

\* Span::contains and Span::cmp_pos over the half-open range [start, end).
SpanContains(span, pos) == span.start <= pos /\ pos < span.end
CmpPos(span, pos) ==
    IF pos < span.start THEN "Greater"
    ELSE IF pos >= span.end THEN "Less"
    ELSE "Equal"

\* slice::binary_search_by(|(_, sp)| sp.cmp_pos(pos)).ok() over items[lo+1 .. hi]
RECURSIVE BinarySearchByPos(_, _, _, _)
BinarySearchByPos(items, pos, lo, hi) ==
    IF lo >= hi THEN <<>>
    ELSE LET mid == lo + (hi - lo) \div 2
             cmp == CmpPos(items[mid + 1].span, pos) IN
         IF cmp = "Equal" THEN <<mid + 1>>
         ELSE IF cmp = "Less" THEN BinarySearchByPos(items, pos, mid + 1, hi)
         ELSE BinarySearchByPos(items, pos, lo, mid)

\* iter().find(|(_, span)| span.contains(pos)): the first element at pos
FirstAt(items, pos) ==
    LET at == {i \in DOMAIN items : SpanContains(items[i].span, pos)} IN
    IF at = {} THEN <<>>
    ELSE <<items[CHOOSE i \in at : \A j \in at : i <= j]>>

\* QueryResult
QueryResult(kind, node) == [kind |-> kind, node |-> node]

\* Statements, cases, parameters, items and modules.
BreakStmt == [k |-> "Break"]
LetStmt(typ, value) == [k |-> "Let", typ |-> typ, value |-> value]
SwitchStmt(expr, cases, default) ==
    [k |-> "Switch", expr |-> expr, cases |-> cases, default |-> default]
ReturnStmt(v) == [k |-> "Return", v |-> v]
CaseNew(condition, body) == [condition |-> condition, body |-> body]
ParamNew(name, typ) == [name |-> name, typ |-> typ]
AnnotationNew(name, args) == [name |-> name, args |-> args]
ImportItem(path) == [k |-> "Import", path |-> path]
FunctionItem(name, type_params, ps, return_type, body) ==
    [k |-> "Function", name |-> name, type_params |-> type_params, params |-> ps,
     return_type |-> return_type, body |-> body]
LetItem(name, typ, default) ==
    [k |-> "Let", name |-> name, typ |-> typ, default |-> default]
ItemDeclNew(annotations, item) == [annotations |-> annotations, item |-> item]
ModuleNew(items) == [items |-> items]

\* Type::find_at
RECURSIVE TypeFindAt(_, _)
TypeFindAt(typ, pos) ==
    IF typ.k \in {"Named", "Array", "StaticArray"}
    THEN LET arg == FirstAt(typ.args, pos) IN
         IF arg # <<>> THEN TypeFindAt(arg[1].e, pos) ELSE QueryResult("Type", typ)
    ELSE \* Type::Fn: the parameters, then the return type
         LET n == Len(typ.args)
             ps == FirstAt(SubSeq(typ.args, 1, n - 1), pos) IN
         IF ps # <<>> THEN TypeFindAt(ps[1].e, pos)
         ELSE IF SpanContains(typ.args[n].span, pos)
         THEN TypeFindAt(typ.args[n].e, pos)
         ELSE QueryResult("Type", typ)

\* Expr::find_at
RECURSIVE ExprFindAt(_, _)
ExprFindAt(e, pos) ==
    IF e.k \in {"Ident", "Constant", "Error"} THEN QueryResult("Expr", e)
    ELSE IF e.k = "ArrayLit"
    THEN LET el == FirstAt(e.els, pos) IN
         IF el # <<>> THEN ExprFindAt(el[1].e, pos) ELSE QueryResult("Expr", e)
    ELSE IF e.k \in {"BinOp", "Assign", "Index"}
    THEN LET lhs == IF e.k = "Index" THEN e.expr ELSE e.lhs
             rhs == IF e.k = "Index" THEN e.index ELSE e.rhs IN
         IF SpanContains(lhs.span, pos) THEN ExprFindAt(lhs.e, pos)
         ELSE IF SpanContains(rhs.span, pos) THEN ExprFindAt(rhs.e, pos)
         ELSE QueryResult("Expr", e)
    ELSE IF e.k \in {"UnOp", "Member"}
    THEN IF SpanContains(e.expr.span, pos) THEN ExprFindAt(e.expr.e, pos)
         ELSE QueryResult("Expr", e)
    ELSE IF e.k = "Call"
    THEN IF SpanContains(e.expr.span, pos) THEN ExprFindAt(e.expr.e, pos)
         ELSE LET typ == FirstAt(e.type_args, pos)
                  arg == FirstAt(e.args, pos) IN
              IF typ # <<>> THEN TypeFindAt(typ[1].e, pos)
              ELSE IF arg # <<>> THEN ExprFindAt(arg[1].e, pos)
              ELSE QueryResult("Expr", e)
    ELSE IF e.k = "DynCast"
    THEN IF SpanContains(e.expr.span, pos) THEN ExprFindAt(e.expr.e, pos)
         ELSE IF SpanContains(e.typ.span, pos) THEN TypeFindAt(e.typ.e, pos)
         ELSE QueryResult("Expr", e)
    ELSE IF e.k = "New"
    THEN IF SpanContains(e.typ.span, pos) THEN TypeFindAt(e.typ.e, pos)
         ELSE LET arg == FirstAt(e.args, pos) IN
              IF arg # <<>> THEN ExprFindAt(arg[1].e, pos)
              ELSE QueryResult("Expr", e)
    ELSE \* Expr::Conditional
         IF SpanContains(e.cond.span, pos) THEN ExprFindAt(e.cond.e, pos)
         ELSE IF SpanContains(e.then.span, pos) THEN ExprFindAt(e.then.e, pos)
         ELSE IF SpanContains(e.else_.span, pos) THEN ExprFindAt(e.else_.e, pos)
         ELSE QueryResult("Expr", e)

\* span.contains(pos).then_some(e.find_at(pos)) on an Option<(Expr, Span)>
OptExprFindAt(opt, pos) ==
    IF opt # <<>> /\ SpanContains(opt[1].span, pos)
    THEN <<ExprFindAt(opt[1].e, pos)>>
    ELSE <<>>

\* Stmt::find_at and Case::find_at
RECURSIVE StmtFindAt(_, _)
StmtsFindAt(stmts, pos) ==
    LET s == FirstAt(stmts, pos) IN
    IF s = <<>> THEN <<>> ELSE <<StmtFindAt(s[1].e, pos)>>

CaseFindAt(case, pos) == StmtsFindAt(case.body, pos)

StmtFindAt(stmt, pos) ==
    IF stmt.k \in {"Break", "Continue"} THEN QueryResult("Stmt", stmt)
    ELSE IF stmt.k = "Let"
    THEN IF stmt.typ # <<>> /\ SpanContains(stmt.typ[1].span, pos)
         THEN TypeFindAt(stmt.typ[1].e, pos)
         ELSE LET res == OptExprFindAt(stmt.value, pos) IN
              IF res # <<>> THEN res[1] ELSE QueryResult("Stmt", stmt)
    ELSE IF stmt.k = "Switch"
    THEN IF SpanContains(stmt.expr.span, pos) THEN ExprFindAt(stmt.expr.e, pos)
         ELSE LET hit == {i \in DOMAIN stmt.cases :
                             CaseFindAt(stmt.cases[i], pos) # <<>>}
                  res == IF stmt.default = <<>> THEN <<>>
                         ELSE StmtsFindAt(stmt.default[1], pos) IN
              IF hit # {}
              THEN CaseFindAt(stmt.cases[CHOOSE i \in hit : \A j \in hit : i <= j],
                              pos)[1]
              ELSE IF res # <<>> THEN res[1]
              ELSE QueryResult("Stmt", stmt)
    ELSE IF stmt.k = "Return"
    THEN LET res == OptExprFindAt(stmt.v, pos) IN
         IF res # <<>> THEN res[1] ELSE QueryResult("Stmt", stmt)
    ELSE \* Stmt::Expr
         IF SpanContains(stmt.expr.span, pos) THEN ExprFindAt(stmt.expr.e, pos)
         ELSE QueryResult("Stmt", stmt)

\* Block::find_at
BlockFindAt(block, pos) ==
    LET idx == BinarySearchByPos(block.stmts, pos, 0, Len(block.stmts)) IN
    IF idx = <<>> THEN <<>> ELSE <<StmtFindAt(block.stmts[idx[1]].e, pos)>>

\* FunctionBody::find_at
FunctionBodyFindAt(body, pos) ==
    IF body.k = "Block" THEN BlockFindAt(body, pos)
    ELSE OptExprFindAt(<<body.expr>>, pos)

\* ItemDecl::find_at
ItemDeclFindAt(decl, pos) ==
    LET item == decl.item IN
    IF item.k \in {"Import", "Enum"} THEN QueryResult("ItemDecl", decl)
    ELSE IF item.k = "Function"
    THEN LET typed == SelectSeq(item.params, LAMBDA p : p.e.typ # <<>>)
             par == FirstAt([i \in DOMAIN typed |-> typed[i].e.typ[1]], pos)
             ret == item.return_type
             body == IF item.body = <<>> THEN <<>>
                     ELSE FunctionBodyFindAt(item.body[1], pos) IN
         IF par # <<>> THEN TypeFindAt(par[1].e, pos)
         ELSE IF ret # <<>> /\ SpanContains(ret[1].span, pos)
         THEN TypeFindAt(ret[1].e, pos)
         ELSE IF body # <<>> THEN body[1]
         ELSE QueryResult("ItemDecl", decl)
    ELSE \* Item::Let
         IF SpanContains(item.typ.span, pos) THEN TypeFindAt(item.typ.e, pos)
         ELSE LET res == OptExprFindAt(item.default, pos) IN
              IF res # <<>> THEN res[1] ELSE QueryResult("ItemDecl", decl)

\* Module::find_at
ModuleFindAt(module, pos) ==
    LET idx == BinarySearchByPos(module.items, pos, 0, Len(module.items)) IN
    IF idx = <<>> THEN <<>> ELSE <<ItemDeclFindAt(module.items[idx[1]].e, pos)>>

\* The modules find_at is asked about, with the byte spans of their sources.
\*   func f(a: Int32) -> Bool { switch a { case b: break; default: return a + b; } }
SwitchModule ==
    LET sum == BinOpExpr(Spanned(IdentExpr("a"), Span(69, 70)), "Add",
                         Spanned(IdentExpr("b"), Span(73, 74)))
        switch ==
            SwitchStmt(Spanned(IdentExpr("a"), Span(34, 35)),
                       <<CaseNew(Spanned(IdentExpr("b"), Span(43, 44)),
                                 <<Spanned(BreakStmt, Span(46, 52))>>)>>,
                       <<<<Spanned(ReturnStmt(<<Spanned(sum, Span(69, 74))>>),
                                   Span(62, 75))>>>>)
        f == FunctionItem("f", <<>>,
                 <<Spanned(ParamNew("a", <<Spanned(Plain("Int32"), Span(10, 15))>>),
                           Span(7, 15))>>,
                 <<Spanned(Plain("Bool"), Span(20, 24))>>,
                 <<BlockNew(<<Spanned(switch, Span(27, 77))>>)>>) IN
    ModuleNew(<<Spanned(ItemDeclNew(<<>>, f), Span(0, 79))>>)

\*   @if(x) func g<T extends Foo>() {}
AnnotatedModule ==
    LET ann == Spanned(AnnotationNew("if", <<Spanned(IdentExpr("x"), Span(4, 5))>>),
                      Span(0, 6))
        bound == <<Spanned(Plain("Foo"), Span(24, 27))>>
        g == FunctionItem("g", <<TypeParam("T", "Invariant", bound)>>, <<>>, <<>>,
                          <<BlockNew(<<>>)>>) IN
    ModuleNew(<<Spanned(ItemDeclNew(<<ann>>, g), Span(0, 33))>>)

\*   import X
\*   let y: array<Int32> = -a;
LetModule ==
    LET typ == Named("array", <<Spanned(Plain("Int32"), Span(22, 27))>>)
        neg == UnOpExpr("Neg", Spanned(IdentExpr("a"), Span(32, 33)))
        y == LetItem("y", Spanned(typ, Span(16, 28)), <<Spanned(neg, Span(31, 33))>>) IN
    ModuleNew(<<Spanned(ItemDeclNew(<<>>, ImportItem("X")), Span(0, 8)),
                Spanned(ItemDeclNew(<<>>, y), Span(9, 34))>>)

Modules == {SwitchModule, AnnotatedModule, LetModule}

\* The offsets of a module: every byte of its source, and the one past it.
Offsets(module) == 0 .. module.items[Len(module.items)].span.end

ModuleFindAtCall(module, pos) ==
    /\ findAt' = [module |-> module, pos |-> pos, out |-> ModuleFindAt(module, pos)]
    /\ UNCHANGED <<climb, parse, opName, lowerVars, build, panicked, filesVars,
                   localsVars, captureVars, resolveVars>>

InitFindAt ==
    /\ build = "debug"
    /\ panicked = FALSE
    /\ climb = <<>> /\ parse = <<>> /\ opName = <<>>
    /\ findAt = <<>>
    /\ IdleFiles /\ IdleLocals /\ IdleCapture /\ IdleResolve /\ IdleLower

NextFindAt == \E module \in Modules : \E pos \in Offsets(module) : ModuleFindAtCall(module, pos)

SpecFindAt == InitFindAt /\ [][NextFindAt]_vars

\* The statements, expressions and types directly below a node.
SpannedIn(kind, seq) == {[kind |-> kind, e |-> seq[i].e, span |-> seq[i].span] : i \in DOMAIN seq}

TypeChildren(typ) == SpannedIn("Type", typ.args)

ExprChildren(e) ==
    IF e.k \in {"BinOp", "Assign"} THEN SpannedIn("Expr", <<e.lhs, e.rhs>>)
    ELSE IF e.k = "Index" THEN SpannedIn("Expr", <<e.expr, e.index>>)
    ELSE IF e.k \in {"UnOp", "Member"} THEN SpannedIn("Expr", <<e.expr>>)
    ELSE IF e.k = "ArrayLit" THEN SpannedIn("Expr", e.els)
    ELSE IF e.k = "Call"
    THEN SpannedIn("Expr", <<e.expr>> \o e.args) \cup SpannedIn("Type", e.type_args)
    ELSE IF e.k = "DynCast"
    THEN SpannedIn("Expr", <<e.expr>>) \cup SpannedIn("Type", <<e.typ>>)
    ELSE IF e.k = "New"
    THEN SpannedIn("Expr", e.args) \cup SpannedIn("Type", <<e.typ>>)
    ELSE IF e.k = "Conditional" THEN SpannedIn("Expr", <<e.cond, e.then, e.else_>>)
    ELSE {}

StmtChildren(stmt) ==
    IF stmt.k = "Let" THEN SpannedIn("Type", stmt.typ) \cup SpannedIn("Expr", stmt.value)
    ELSE IF stmt.k = "Switch"
    THEN SpannedIn("Expr", <<stmt.expr>>)
         \cup UNION {SpannedIn("Expr", <<stmt.cases[i].condition>>)
                        \cup SpannedIn("Stmt", stmt.cases[i].body) :
                     i \in DOMAIN stmt.cases}
         \cup UNION {SpannedIn("Stmt", stmt.default[i]) : i \in DOMAIN stmt.default}
    ELSE IF stmt.k = "Return" THEN SpannedIn("Expr", stmt.v)
    ELSE IF stmt.k = "Expr" THEN SpannedIn("Expr", <<stmt.expr>>)
    ELSE {}

ItemDeclChildren(decl) ==
    LET item == decl.item IN
    UNION {SpannedIn("Expr", decl.annotations[i].e.args) : i \in DOMAIN decl.annotations}
    \cup IF item.k = "Function"
         THEN UNION {SpannedIn("Type", item.type_params[i].upper) :
                     i \in DOMAIN item.type_params}
              \cup UNION {SpannedIn("Type", item.params[i].e.typ) : i \in DOMAIN item.params}
              \cup SpannedIn("Type", item.return_type)
              \cup UNION {IF item.body[i].k = "Block"
                          THEN SpannedIn("Stmt", item.body[i].stmts)
                          ELSE SpannedIn("Expr", <<item.body[i].expr>>) :
                          i \in DOMAIN item.body}
         ELSE IF item.k = "Let"
         THEN SpannedIn("Type", <<item.typ>>) \cup SpannedIn("Expr", item.default)
         ELSE {}

Children(kind, node) ==
    IF kind = "Type" THEN TypeChildren(node)
    ELSE IF kind = "Expr" THEN ExprChildren(node)
    ELSE IF kind = "Stmt" THEN StmtChildren(node)
    ELSE ItemDeclChildren(node)

\* Some statement, expression or type below the node contains the offset.
RECURSIVE DescendantAt(_, _, _)
DescendantAt(kind, node, pos) ==
    \E c \in Children(kind, node) :
        SpanContains(c.span, pos) \/ DescendantAt(c.kind, c.e, pos)

\* C22: find_at answers None when no item's span covers the offset, and
\* otherwise the innermost item declaration, statement, expression or type
\* at the offset: no statement, expression or type below the node it
\* returns contains the offset.
C22_Innermost ==
    findAt # <<>> =>
        LET items == findAt.module.items
            covered == \E i \in DOMAIN items : SpanContains(items[i].span, findAt.pos) IN
        /\ ~covered => findAt.out = <<>>
        /\ covered => /\ findAt.out # <<>>
                      /\ ~DescendantAt(findAt.out[1].kind, findAt.out[1].node, findAt.pos)

\* ------------------------------------------------------------------------
\* File::line_and_offset and File::lookup (files.rs)
\* ------------------------------------------------------------------------
\* A source is a sequence of bytes: "x" and "\n" are characters of one byte,
\* "C3" "A9" are the two bytes of the character e-acute.
MaxChars == 3       \* longest source, in characters
Chars == {<<"x">>, <<"\n">>, <<"C3", "A9">>}

RECURSIVE Utf8(_)
Utf8(n) ==
    IF n = 0 THEN {<<>>}
    ELSE Utf8(n - 1) \cup {s \o c : s \in Utf8(n - 1), c \in Chars}

\* slice::binary_search on the strictly increasing line table: Ok(i) where
\* the value is, Err(i) where it would be inserted (0-based).
BinarySearch(lines, x) ==
    IF \E i \in DOMAIN lines : lines[i] = x
    THEN [ok |-> TRUE, i |-> (CHOOSE i \in DOMAIN lines : lines[i] = x) - 1]
    ELSE [ok |-> FALSE, i |-> Cardinality({i \in DOMAIN lines : lines[i] < x})]

\* self.lines[line - 1]: for line = 0 the subtraction overflows usize; with
\* overflow checks it panics, without them it wraps to usize::MAX, an index
\* no Vec has, and the indexing panics.
LineStart(lines, line) ==
    IF line = 0 \/ line > Len(lines) THEN [panic |-> TRUE, v |-> 0]
    ELSE [panic |-> FALSE, v |-> lines[line]]

\* File::line_and_offset
LineAndOffset(file, offset) ==
    IF file.lines # <<>> /\ file.lines[1] > offset
    THEN [panic |-> FALSE, line |-> 0, start |-> 0]
    ELSE LET found == BinarySearch(file.lines, offset)
             line == IF found.ok THEN found.i + 1 ELSE found.i
             start == LineStart(file.lines, line) IN
         [panic |-> start.panic, line |-> line, start |-> start.v]

\* str::is_char_boundary, and the characters of source[from .. to]
IsCharBoundary(source, i) ==
    i = 0 \/ i = Len(source) \/ (i < Len(source) /\ source[i + 1] # "A9")
CharsCount(source, from, to) ==
    Cardinality({i \in from + 1 .. to : source[i] # "A9"})

\* File::lookup: slicing panics off a character boundary.
Lookup(file, offset) ==
    LET lo == LineAndOffset(file, offset) IN
    IF lo.panic
       \/ ~IsCharBoundary(file.source, lo.start)
       \/ ~IsCharBoundary(file.source, offset)
    THEN [panic |-> TRUE, lo |-> lo, line |-> 0, col |-> 0]
    ELSE [panic |-> FALSE, lo |-> lo, line |-> lo.line,
          col |-> CharsCount(file.source, lo.start, offset)]

LookupCall(source, offset) ==
    /\ lookup' = [source |-> source, offset |-> offset,
                  out |-> Lookup(FileNew("a.reds", source), offset)]
    /\ UNCHANGED <<front, back, pushes, lastGet, syntaxVars, lowerVars, build, panicked,
                   localsVars, captureVars, resolveVars>>

InitLookup ==
    /\ build = "debug"
    /\ panicked = FALSE
    /\ front = <<>> /\ back = <<>> /\ pushes = <<>> /\ lastGet = NoGet
    /\ lookup = <<>>
    /\ IdleLocals /\ IdleCapture /\ IdleResolve /\ IdleSyntax /\ IdleLower

NextLookup ==
    \E source \in Utf8(MaxChars) : \E offset \in 0 .. Len(source) :
        LookupCall(source, offset)

SpecLookup == InitLookup /\ [][NextLookup]_vars

\* The newline characters that end at or before the offset.
NewlinesBefore(source, offset) == {i \in 1 .. offset : source[i] = "\n"}

\* C23: for every file and every offset up to its length, line_and_offset
\* returns (l, s) with l the number of newlines ended before the offset and
\* s the start of line l, and lookup reports line l with the number of
\* characters between s and the offset as the column.
C23_Lookup ==
    lookup # <<>> =>
        LET nl == NewlinesBefore(lookup.source, lookup.offset)
            l == Cardinality(nl)
            s == IF nl = {} THEN 0 ELSE CHOOSE i \in nl : \A j \in nl : j <= i IN
        /\ ~lookup.out.panic
        /\ lookup.out.lo.line = l
        /\ lookup.out.lo.start = s
        /\ lookup.out.line = l
        /\ lookup.out.col = CharsCount(lookup.source, s, lookup.offset)

\* ------------------------------------------------------------------------
\* resolve, arm by arm
\* ------------------------------------------------------------------------
\* What the environment of the last call binds the head of its type to.
HeadRef == TypeEnvGet(EnvOf(last.env), last.typ.name)

\* resolve(typ, span) from the store the last call left.
ResolveAfter(typ, span) ==
    Resolve(EnvOf(last.env), Store(cells, nextRc), typ, span, MaxForceDepth)

\* C24: for a name bound to a Var, resolve returns that variable as a type,
\* whatever the arguments are, and resolves none of them: no thunk runs and
\* no cell changes.
C24_VarIgnoresArgs ==
    (last.op = "apply" /\ last.typ.k = "Named" /\ HeadRef.some /\ HeadRef.v.k = "Var") =>
        /\ last.val = Ok(Ctx(HeadRef.v.var))
        /\ cells = last.pre.cells
        /\ nextRc = last.pre.nextRc
        /\ \A c \in Cells : last.runs[c] = 0

\* W, bound to a Var, applied to an over-long function type of an unbound
\* name, has resolved to the variable; resolved by itself the argument fails.
C24_Witness ==
    /\ last.op = "apply"
    /\ last.env = "lazy"
    /\ last.typ = Named("W", <<FnT([i \in 1 .. MAX_FN_ARITY + 1 |-> Plain("X")], Plain("X"))>>)
    /\ last.val = Ok(Ctx(VarW))
    /\ ~ResolveAgain(last.typ.args[1], ChildSpan(CallSpan, 1)).val.ok

\* resolve(typ, span) by the environment of the last call, from store st.
ResolveFrom(st, typ, span) == Resolve(EnvOf(last.env), st, typ, span, MaxForceDepth)

\* C25: where `ref` is bound to Name(REF), `ref` with no argument or with
\* two is not collapsed: the arguments are resolved in order, and the result
\* is App(REF, resolved arguments) or the error of the first argument that
\* fails.
C25_RefNotCollapsed ==
    (/\ last.op = "apply"
     /\ last.typ.k = "Named" /\ last.typ.name = "ref"
     /\ RefIsRef(EnvOf(last.env))
     /\ Len(last.typ.args) \in {0, 2}) =>
        IF last.typ.args = <<>>
        THEN last.val = Ok(App(REF, <<>>)) /\ cells = last.pre.cells
        ELSE LET a == ResolveFrom(PreStore, last.typ.args[1], ChildSpan(CallSpan, 1))
                 b == ResolveFrom(a.st, last.typ.args[2], ChildSpan(CallSpan, 2)) IN
             IF ~a.val.ok THEN last.val = a.val /\ cells = a.st.cells
             ELSE IF ~b.val.ok THEN last.val = b.val /\ cells = b.st.cells
             ELSE /\ last.val = Ok(App(REF, <<a.val.v, b.val.v>>))
                  /\ cells = b.st.cells

\* ref<Int32, T> has resolved to REF applied to both resolved arguments, and
\* the cell of T has been forced on the way.
C25_Witness ==
    /\ last.op = "apply"
    /\ last.env = "lazy"
    /\ last.typ = Named("ref", <<Plain("Int32"), Plain("T")>>)
    /\ last.val.ok
    /\ last.val.v.id = REF
    /\ Len(last.val.v.args) = 2
    /\ last.val.v.args[1] = App(INT32, <<>>)
    /\ last.val.v.args[2].k = "Ctx"
    /\ last.pre.cells["T"].st = "Pending"
    /\ cells["T"].st = "Done"

\* The components of the last call's type, each resolved by itself once the
\* call is over.
ComponentsAfter ==
    [i \in DOMAIN last.typ.args |->
        ResolveAfter(last.typ.args[i], ChildSpan(CallSpan, i)).val]

\* C26: when its components resolve, an array type resolves to ARRAY applied
\* to the resolved element; a static array to array_with_size(n) applied to
\* it, or to UnsupportedStaticArraySize at the span of the static array when
\* n is beyond MAX_STATIC_ARRAY_SIZE; a function type of k parameters to
\* fn_with_arity(k) applied to the k resolved parameters followed by the
\* resolved return type, or to UnsupportedArity at the span of the function
\* type when k is beyond MAX_FN_ARITY.
C26_Compound ==
    (/\ last.op = "apply"
     /\ last.typ.k \in {"Array", "StaticArray", "Fn"}
     /\ \A i \in DOMAIN ComponentsAfter : ComponentsAfter[i].ok) =>
        LET resolved == [i \in DOMAIN ComponentsAfter |-> ComponentsAfter[i].v]
            k == Len(last.typ.args) - 1 IN
        IF last.typ.k = "Array"
        THEN last.val = Ok(App(ARRAY, resolved)) /\ Len(resolved) = 1
        ELSE IF last.typ.k = "StaticArray"
        THEN IF last.typ.size <= MAX_STATIC_ARRAY_SIZE
             THEN /\ last.val = Ok(App(TypeId("array_with_size", last.typ.size), resolved))
                  /\ Len(resolved) = 1
             ELSE last.val = Err(Error("UnsupportedStaticArraySize", "", CallSpan))
        ELSE IF k <= MAX_FN_ARITY
             THEN /\ last.val = Ok(App(TypeId("fn_with_arity", k), resolved))
                  /\ Len(last.val.v.args) = k + 1
                  /\ last.val.v.args[k + 1] = ComponentsAfter[Len(last.typ.args)].v
             ELSE last.val = Err(Error("UnsupportedArity", "", CallSpan))

\* (Int32) -> T has resolved to fn_with_arity(1) applied to Int32 and to the
\* variable of T, the return type last.
C26_Witness ==
    /\ last.op = "apply"
    /\ last.env = "lazy"
    /\ last.typ = FnT(<<Plain("Int32")>>, Plain("T"))
    /\ last.val.ok
    /\ last.val.v.id = TypeId("fn_with_arity", 1)
    /\ last.val.v.args[1] = App(INT32, <<>>)
    /\ last.val.v.args[2].k = "Ctx"

\* The types whose components resolve visits.
VisitsComponents ==
    \/ last.typ.k \in {"Array", "StaticArray", "Fn"}
    \/ last.typ.k = "Named" /\ HeadRef.some /\ HeadRef.v.k = "Name"

\* The components of the last call's type, each resolved by itself from the
\* store the call started from.
ComponentsBefore ==
    [i \in DOMAIN last.typ.args |->
        ResolveFrom(PreStore, last.typ.args[i], ChildSpan(CallSpan, i)).val]

\* C28: a failing resolve returns the error of the first component that
\* fails, left to right, as that component reports it (its own kind, name
\* and span); the type's own UnsupportedStaticArraySize or UnsupportedArity
\* is returned only when every component resolves.
C28_FirstError ==
    (last.op = "apply" /\ VisitsComponents) =>
        LET failing == {i \in DOMAIN ComponentsBefore : ~ComponentsBefore[i].ok} IN
        IF failing # {}
        THEN last.val = ComponentsBefore[CHOOSE i \in failing : \A j \in failing : i <= j]
        ELSE ~last.val.ok =>
                /\ last.val.err.span = CallSpan
                /\ \/ /\ last.typ.k = "StaticArray"
                      /\ last.val.err.kind = "UnsupportedStaticArraySize"
                   \/ /\ last.typ.k = "Fn"
                      /\ last.val.err.kind = "UnsupportedArity"

\* An over-long function type whose first parameter and return type are
\* unbound names has failed with the first parameter's error.
C28_Witness ==
    /\ last.op = "apply"
    /\ last.env = "global"
    /\ last.typ = FnT([i \in 1 .. MAX_FN_ARITY + 1 |-> Plain("X")], Plain("X"))
    /\ last.val = Err(Error("UnresolvedType", "X", ChildSpan(CallSpan, 1)))

\* ------------------------------------------------------------------------
\* The operator tables: UnOp and BinOp (ast.rs)
\* ------------------------------------------------------------------------
\* enum UnOp
UnOp == {"BitNot", "Not", "Neg"}

UnOpNameMutant(op) ==
    IF op = "Not" THEN "OperatorLogicNot"
    ELSE IF op = "Neg" THEN "OperatorSubtract"
    ELSE "OperatorBitNot"
\* UnOp::name
UnOpName(op) ==
    IF op = "Not" THEN "OperatorLogicNot"
    ELSE IF op = "Neg" THEN "OperatorNeg"
    ELSE "OperatorBitNot"

\* UnOp::from_name
UnOpFromName(name) ==
    IF name = "OperatorLogicNot" THEN Some("Not")
    ELSE IF name = "OperatorNeg" THEN Some("Neg")
    ELSE IF name = "OperatorBitNot" THEN Some("BitNot")
    ELSE None

\* BinOp::name
BinOpName(op) ==
    CASE op = "AssignAdd" -> "OperatorAssignAdd"
      [] op = "AssignSub" -> "OperatorAssignSubtract"
      [] op = "AssignMul" -> "OperatorAssignMultiply"
      [] op = "AssignDiv" -> "OperatorAssignDivide"
      [] op = "AssignBitOr" -> "OperatorAssignOr"
      [] op = "AssignBitAnd" -> "OperatorAssignAnd"
      [] op = "Or" -> "OperatorLogicOr"
      [] op = "And" -> "OperatorLogicAnd"
      [] op = "BitOr" -> "OperatorOr"
      [] op = "BitXor" -> "OperatorXor"
      [] op = "BitAnd" -> "OperatorAnd"
      [] op = "Eq" -> "OperatorEqual"
      [] op = "Ne" -> "OperatorNotEqual"
      [] op = "Lt" -> "OperatorLess"
      [] op = "Le" -> "OperatorLessEqual"
      [] op = "Gt" -> "OperatorGreater"
      [] op = "Ge" -> "OperatorGreaterEqual"
      [] op = "Add" -> "OperatorAdd"
      [] op = "Sub" -> "OperatorSubtract"
      [] op = "Mul" -> "OperatorMultiply"
      [] op = "Div" -> "OperatorDivide"
      [] op = "Mod" -> "OperatorModulo"

\* BinOp::from_name
BinOpFromName(name) ==
    CASE name = "OperatorAssignAdd" -> Some("AssignAdd")
      [] name = "OperatorAssignSubtract" -> Some("AssignSub")
      [] name = "OperatorAssignMultiply" -> Some("AssignMul")
      [] name = "OperatorAssignDivide" -> Some("AssignDiv")
      [] name = "OperatorAssignOr" -> Some("AssignBitOr")
      [] name = "OperatorAssignAnd" -> Some("AssignBitAnd")
      [] name = "OperatorLogicOr" -> Some("Or")
      [] name = "OperatorLogicAnd" -> Some("And")
      [] name = "OperatorOr" -> Some("BitOr")
      [] name = "OperatorXor" -> Some("BitXor")
      [] name = "OperatorAnd" -> Some("BitAnd")
      [] name = "OperatorEqual" -> Some("Eq")
      [] name = "OperatorNotEqual" -> Some("Ne")
      [] name = "OperatorLess" -> Some("Lt")
      [] name = "OperatorLessEqual" -> Some("Le")
      [] name = "OperatorGreater" -> Some("Gt")
      [] name = "OperatorGreaterEqual" -> Some("Ge")
      [] name = "OperatorAdd" -> Some("Add")
      [] name = "OperatorSubtract" -> Some("Sub")
      [] name = "OperatorMultiply" -> Some("Mul")
      [] name = "OperatorDivide" -> Some("Div")
      [] name = "OperatorModulo" -> Some("Mod")
      [] OTHER -> None

\* The strings from_name is asked about: the names of both enums, the names
\* of the variants themselves, and some near misses.
NameStrings ==
    {BinOpName(op) : op \in BinOp} \cup {UnOpName(op) : op \in UnOp}
    \cup BinOp \cup UnOp
    \cup {"", "Operator", "operatoradd", "OperatorAdd ", "OperatorNot", "OperatorBitAnd",
          "OperatorAssignBitOr", "OperatorMod", "+"}

\* One call on an operator table: the enum, the method, its argument and
\* its result (a name, an Option, a precedence or an associativity).
OpCall(enum, fn, arg, out) == [enum |-> enum, fn |-> fn, arg |-> arg, out |-> out]
NoOpCall == OpCall("", "none", "", "")

\* A call follows another: opName holds the call and the one before it.
OpNameCall(call) ==
    /\ opName' = [call |-> call, prev |-> opName.call]
    /\ UNCHANGED <<climb, parse, findAt, lowerVars, build, panicked, filesVars,
                   localsVars, captureVars, resolveVars>>

UnOpNameCall(op) == OpNameCall(OpCall("UnOp", "name", op, UnOpName(op)))
UnOpFromNameCall(name) == OpNameCall(OpCall("UnOp", "from_name", name, UnOpFromName(name)))
BinOpNameCall(op) == OpNameCall(OpCall("BinOp", "name", op, BinOpName(op)))
BinOpFromNameCall(name) ==
    OpNameCall(OpCall("BinOp", "from_name", name, BinOpFromName(name)))
PrecedenceCall(op) == OpNameCall(OpCall("BinOp", "precedence", op, Precedence(op)))
AssocCall(op) == OpNameCall(OpCall("BinOp", "assoc", op, Assoc(op)))

InitOpNames ==
    /\ build = "debug"
    /\ panicked = FALSE
    /\ climb = <<>> /\ parse = <<>> /\ findAt = <<>>
    /\ opName = [call |-> NoOpCall, prev |-> NoOpCall]
    /\ IdleFiles /\ IdleLocals /\ IdleCapture /\ IdleResolve /\ IdleLower

NextOpNames ==
    \/ \E op \in UnOp : UnOpNameCall(op)
    \/ \E name \in NameStrings : UnOpFromNameCall(name)
    \/ \E op \in BinOp : BinOpNameCall(op)
    \/ \E name \in NameStrings : BinOpFromNameCall(name)
    \/ \E op \in BinOp : PrecedenceCall(op)
    \/ \E op \in BinOp : AssocCall(op)

SpecOpNames == InitOpNames /\ [][NextOpNames]_vars

\* The six compound assignments.
CompoundAssignments ==
    {"AssignAdd", "AssignSub", "AssignMul", "AssignDiv", "AssignBitOr", "AssignBitAnd"}

\* C27: there are 22 binary operators; every precedence lies in 0 .. 9;
\* assoc is Right exactly for the six compound assignments, which are
\* exactly the operators of precedence 0; name is injective on each enum,
\* from_name(name(op)) is Some(op), and from_name answers None for a string
\* that is no name of the enum; no unary name is a binary name.
C27_OperatorTables ==
    LET call == opName.call
        prev == opName.prev IN
    /\ Cardinality(BinOp) = 22
    /\ Cardinality(UnOp) = 3
    /\ call.fn = "precedence" =>
          /\ call.out \in 0 .. 9
          /\ call.out = 0 <=> call.arg \in CompoundAssignments
    /\ call.fn = "assoc" =>
          /\ call.out = "Right" <=> call.arg \in CompoundAssignments
          /\ call.out = "Left" <=> call.arg \notin CompoundAssignments
          /\ (prev.fn = "precedence" /\ prev.arg = call.arg) =>
                (call.out = "Right" <=> prev.out = 0)
    /\ (call.fn = "name" /\ prev.fn = "name") =>
          \* injective within an enum, disjoint across the two
          (call.out = prev.out => (call.enum = prev.enum /\ call.arg = prev.arg))
    /\ (call.fn = "from_name" /\ prev.fn = "name" /\ call.enum = prev.enum) =>
          \* the round trip, and None for every other string
          /\ call.arg = prev.out => call.out = Some(prev.arg)
          /\ call.out = Some(prev.arg) => call.arg = prev.out
    /\ (call.fn = "from_name" /\ call.out # None) =>
          /\ call.out.v \in (IF call.enum = "BinOp" THEN BinOp ELSE UnOp)
          /\ call.arg = (IF call.enum = "BinOp" THEN BinOpName(call.out.v)
                         ELSE UnOpName(call.out.v))

\* from_name has just given back the operator whose name was asked before.
C27_Witness ==
    /\ opName.prev.enum = "UnOp"
    /\ opName.prev.fn = "name"
    /\ opName.prev.arg = "Neg"
    /\ opName.prev.out = "OperatorNeg"
    /\ opName.call.enum = "UnOp"
    /\ opName.call.fn = "from_name"
    /\ opName.call.arg = "OperatorNeg"
    /\ opName.call.out = Some("Neg")

\* ------------------------------------------------------------------------
\* The shared counter of Locals at the end of its range
\* ------------------------------------------------------------------------
\* C29: the counter never wraps: an add made with the counter at 65535 does
\* not leave it at 0, and no number is issued twice.
C29_NeverWraps ==
    /\ (lastAdd.op \in {"add_var", "add_param"} /\ lastAdd.pre = U16_MAX) => counter # 0
    /\ \A e, f \in Entries : e # f => EntryNum(e) # EntryNum(f)

\* ------------------------------------------------------------------------
\* climb_prec: what the tree holds
\* ------------------------------------------------------------------------
\* An operand or an operator met when a tree is read from left to right.
OperandItem(e) == [op |-> "", name |-> e.name]
OperatorItem(op) == [op |-> op, name |-> -1]

RECURSIVE InOrder(_)
InOrder(e) ==
    IF e.e.k = "BinOp"
    THEN InOrder(e.e.lhs) \o <<OperatorItem(e.e.op)>> \o InOrder(e.e.rhs)
    ELSE <<OperandItem(e.e)>>

\* The chain as it was given: operand 0, then each operator and its operand.
RECURSIVE InputOrder(_, _)
InputOrder(ops, n) ==
    IF n = 0 THEN <<OperandItem(Operand(0).e)>>
    ELSE InputOrder(ops, n - 1) \o <<OperatorItem(ops[n]), OperandItem(Operand(n).e)>>

\* Every BinOp node spans exactly its two children.
RECURSIVE SpansJoin(_)
SpansJoin(e) ==
    e.e.k = "BinOp" =>
        /\ e.span.start = (IF e.e.lhs.span.start <= e.e.rhs.span.start
                           THEN e.e.lhs.span.start ELSE e.e.rhs.span.start)
        /\ e.span.end = (IF e.e.lhs.span.end >= e.e.rhs.span.end
                         THEN e.e.lhs.span.end ELSE e.e.rhs.span.end)
        /\ SpansJoin(e.e.lhs)
        /\ SpansJoin(e.e.rhs)

\* C30: climb_prec with minimum precedence 0 returns, having consumed every
\* pair, a tree that read from left to right gives the operands and the
\* operators of the chain, each once and in the order given, and in which
\* every BinOp node spans exactly the union of its two children.
C30_TreeHoldsChain ==
    climb.op = "climb" =>
        /\ climb.out.i = Len(climb.ops) + 1
        /\ InOrder(climb.out.e) = InputOrder(climb.ops, Len(climb.ops))
        /\ SpansJoin(climb.out.e)

\* x0 += x1 + x2 * x3 has come out nested to the right, x0 += (x1 + (x2 * x3)),
\* and reads back in the order given.
C30_Witness ==
    /\ climb.op = "climb"
    /\ climb.ops = <<"AssignAdd", "Add", "Mul">>
    /\ climb.out.e.e.op = "AssignAdd"
    /\ climb.out.e.e.rhs.e.op = "Add"
    /\ climb.out.e.e.rhs.e.rhs.e.op = "Mul"
    /\ climb.out.e.span = Span(0, 13)
    /\ Len(InOrder(climb.out.e)) = 7

============================================================================
